---- MODULE Spec2Model ----
(***************************************************************************)
(* A model of the recent-block cache of crates/shared                      *)
(* (src/crates/shared/src/recent_block_cache.rs): the mutex-protected      *)
(* state `Mutexed`, the operations fetch and update_cache, the shared      *)
(* per-(key, block) requests with their retry loop, and the fetcher;       *)
(* of the settlement rater of crates/solver                                *)
(* (src/crates/solver/src/settlement_rater.rs): one rate_settlement call   *)
(* against a node, and the score with success probability; and of the      *)
(* decoding of settle calldata of crates/autopilot                         *)
(* (src/crates/autopilot/src/decoded_settlement.rs).                       *)
(***************************************************************************)
EXTENDS Integers, Sequences, FiniteSets, Bags, TLC

(***************************************************************************)
(* Bounds of the model.                                                    *)
(***************************************************************************)
\* Block numbers range over 0..MaxBlock.
MaxBlock == 2
\* Number of calls started in one behaviour of two concurrent callers.
MaxCalls == 2
\* Number of calls started in one behaviour of a single caller.
MaxSeqCalls == 3
\* Largest number of keys passed to one fetch call.
MaxFetchKeys == 2

\* U256 is modelled U256Bits wide.
U256Bits == 4
\* Gas estimates of a simulation range over 1..MaxGas.
MaxGas == 2
\* max_fee_per_gas, when finite, ranges over 1..MaxFee.
MaxFee == 2

\* The most tokens of a settlement that is decoded.
MaxTokens == 2

\* The most trades of a settlement whose fees are computed, and the most
\* executions of orders supplied with it.
MaxTrades == 2
MaxExecutions == 3

\* The most trades of a solution whose prices are listed, and the highest
\* clearing price.
MaxSolutionTrades == 2
MaxPrice == 2

\* The latest deadline and time of a call of SolverTimeout::new, and the
\* longest buffer.
MaxDeadline == 5
MaxBuffer == 2

\* The most events of a batch of store_order_events, and the latest time of
\* the database's clock.
MaxEvents == 2
MaxClock == 3

\* The most retries and the longest delay between retries the shared future
\* of fetch_inner is followed with attempt by attempt.
MaxRetries == 2
MaxDelay == 2

\* The bits of a u64 in the token indices of a decoded trade.
U64Bits == 2

\* The time the alerter runs for, and the longest time between two of its
\* updates.
MaxTime == 5
MaxSleep == 2

\* The largest amount and the largest clearing price of a trade.
MaxAmount == 2

\* The bytes of a word of the ABI.
WORD == 32

\* DecodedSettlement::META_DATA_LEN
META_DATA_LEN == 8

\* const REQUEST_BATCH_SIZE
REQUEST_BATCH_SIZE == 200

Keys == {0, 1, 2}
Data == {"a"}
Tasks == {1, 2}
Blocks == 0 .. MaxBlock

(***************************************************************************)
(* Helpers.                                                                *)
(***************************************************************************)
Range(s) == {s[i] : i \in DOMAIN s}

Max(a, b) == IF a >= b THEN a ELSE b

Min(a, b) == IF a <= b THEN a ELSE b

\* u64::saturating_sub
saturating_sub(a, b) == IF a >= b THEN a - b ELSE 0

\* All orders in which the elements of a set can be iterated (HashSet::iter).
Orders(S) == {s \in [1 .. Cardinality(S) -> S] : Range(s) = S}

\* Sequences of distinct keys of K of length 1..MaxFetchKeys: the `keys` of
\* fetch.
KeySeqs(K) ==
    {s \in UNION {[1 .. n -> K] : n \in 1 .. MaxFetchKeys} :
        \A i, j \in DOMAIN s : i # j => s[i] # s[j]}

\* The multiset of the elements of a sequence.
RECURSIVE BagOf(_)
BagOf(s) == IF s = <<>> THEN EmptyBag ELSE SetToBag({Head(s)}) (+) BagOf(Tail(s))

(***************************************************************************)
(* Values, keys and blocks.                                                *)
(***************************************************************************)
\* TestValue { key, data }
Value(k, d) == [key |-> k, data |-> d]

\* CacheKey::for_value
for_value(v) == v.key

\* CacheKey::first_ord, the smallest key
first_ord == CHOOSE k \in Keys : \A j \in Keys : k <= j

\* enum Block
Recent == [tag |-> "Recent", number |-> 0]

Number(n) == [tag |-> "Number", number |-> n]

\* Option<u64>
NoBlock == [some |-> FALSE, number |-> 0]

SomeBlock(n) == [some |-> TRUE, number |-> n]

\* Option<Vec<V>> / Option<&[V]>
NoValues == [some |-> FALSE, values |-> <<>>]

SomeValues(vs) == [some |-> TRUE, values |-> vs]

\* Result<Vec<V>>
Err == [ok |-> FALSE, values |-> <<>>]

Ok(vs) == [ok |-> TRUE, values |-> vs]

\* What one fetch_values call for the single key k can answer: an error, or
\* the values of that key (none or one).
FetcherAnswers(k) == {Err, Ok(<<>>)} \cup {Ok(<<Value(k, d)>>) : d \in Data}

(***************************************************************************)
(* struct CacheConfig: the configurations the cache is built with.         *)
(***************************************************************************)
\* impl Default for CacheConfig
DefaultConfig ==
    [number_of_blocks_to_cache |-> 1,
     number_of_entries_to_auto_update |-> 1,
     maximum_recent_block_age |-> 0,
     max_retries |-> 0]

\* A configuration as the tests of the module build it: several blocks
\* cached, two entries auto updated, a recent block may be one block old,
\* one retry.
TestConfig ==
    [number_of_blocks_to_cache |-> 2,
     number_of_entries_to_auto_update |-> 2,
     maximum_recent_block_age |-> 1,
     max_retries |-> 1]

\* A configuration in which a block stays cached for longer than Recent
\* accepts it: two blocks cached, only the block of the last update recent.
FreshConfig ==
    [number_of_blocks_to_cache |-> 2,
     number_of_entries_to_auto_update |-> 2,
     maximum_recent_block_age |-> 0,
     max_retries |-> 0]

Configs == {DefaultConfig, TestConfig, FreshConfig}

(***************************************************************************)
(* The state.                                                              *)
(***************************************************************************)
VARIABLES
    config,         \* the CacheConfig the cache was built with
    mutexed,        \* RecentBlockCache::mutexed, the struct Mutexed
    block_stream,   \* the number of the current block of block_stream
    futures,        \* the shared requests in flight (RecentBlockCache::requests)
    task,           \* the position and locals of each caller of the cache
    ncalls,         \* the number of calls started so far
    last            \* what the last step did to a call: started or returned it

VARIABLES
    rating,         \* the rate_settlement call: its arguments, the node, its position
    scoring,        \* a call of compute_score_with_success_probability
    codec           \* a call of DecodedSettlement::new

VARIABLES
    trading,        \* a call of trade_surplus, total_fees or order_executions
    alerter,        \* the Alerter, the clock and the loop of main around it
    detector,       \* a call of TraceCallDetector::detect
    solution        \* a call of Solution::prices

VARIABLES
    timeout,        \* a call of SolverTimeout::new
    database        \* the order_events table and a call of store_order_events

VARIABLES
    retrying        \* one shared future of fetch_inner, attempt by attempt

cache_vars == <<config, mutexed, block_stream, futures, task, ncalls, last>>

vars == <<config, mutexed, block_stream, futures, task, ncalls, last,
          rating, scoring, codec, trading, alerter, detector, solution,
          timeout, database, retrying>>

\* A step of one component leaves the variables of every other as they are.
OthersUnchanged(component) ==
    /\ IF component = "cache" THEN TRUE ELSE UNCHANGED cache_vars
    /\ IF component = "rating" THEN TRUE ELSE UNCHANGED rating
    /\ IF component = "scoring" THEN TRUE ELSE UNCHANGED scoring
    /\ IF component = "codec" THEN TRUE ELSE UNCHANGED codec
    /\ IF component = "trading" THEN TRUE ELSE UNCHANGED trading
    /\ IF component = "alerter" THEN TRUE ELSE UNCHANGED alerter
    /\ IF component = "detector" THEN TRUE ELSE UNCHANGED detector
    /\ IF component = "solution" THEN TRUE ELSE UNCHANGED solution
    /\ IF component = "timeout" THEN TRUE ELSE UNCHANGED timeout
    /\ IF component = "database" THEN TRUE ELSE UNCHANGED database
    /\ IF component = "retrying" THEN TRUE ELSE UNCHANGED retrying

(***************************************************************************)
(* SizedCache<K, ()> (crate `cached`): the keys in order, most recently    *)
(* inserted first.  cache_set first makes room when the store is at        *)
(* capacity by dropping the last key of the order, then keeps a key that   *)
(* is present where it is, or puts a new key in front.                     *)
(***************************************************************************)
\* check_capacity making room only once the store is over capacity.
check_capacity_late(order) ==
    IF Len(order) > config.number_of_entries_to_auto_update
    THEN SubSeq(order, 1, Len(order) - 1)
    ELSE order

check_capacity(order) ==
    IF Len(order) >= config.number_of_entries_to_auto_update
    THEN SubSeq(order, 1, Len(order) - 1)
    ELSE order

cache_set(order, key) ==
    LET o == check_capacity(order)
    IN  IF key \in Range(o) THEN o ELSE <<key>> \o o

(***************************************************************************)
(* struct Mutexed: a record                                                *)
(*   recently_used                 : sequence of keys                      *)
(*   cached_most_recently_at_block : function from some keys to blocks     *)
(*   entries                       : function from some <<block, key>>     *)
(*                                   to sequences of values                *)
(*   last_update_block             : block                                 *)
(***************************************************************************)
\* Mutexed::new
MutexedNew(current_block) ==
    [recently_used |-> <<>>,
     cached_most_recently_at_block |-> <<>>,
     entries |-> <<>>,
     last_update_block |-> current_block]

\* get_block taking the most recently cached block of the key whatever its
\* age.
get_block_any_age(m, key, block) ==
    IF block.some
    THEN block
    ELSE IF key \in DOMAIN m.cached_most_recently_at_block
         THEN SomeBlock(m.cached_most_recently_at_block[key])
         ELSE NoBlock

\* The block Mutexed::get looks the key up at: the requested one, or for
\* Recent the key's most recently cached block if that is recent enough.
get_block(m, key, block) ==
    IF block.some
    THEN block
    ELSE IF /\ key \in DOMAIN m.cached_most_recently_at_block
            /\ saturating_sub(m.last_update_block,
                              m.cached_most_recently_at_block[key])
                   <= config.maximum_recent_block_age
         THEN SomeBlock(m.cached_most_recently_at_block[key])
         ELSE NoBlock

\* Mutexed::get marking the key as recently used whenever it has an entry.
get_marks_empty(m, key, block) ==
    LET b == get_block(m, key, block)
        result ==
            IF b.some /\ <<b.number, key>> \in DOMAIN m.entries
            THEN SomeValues(m.entries[<<b.number, key>>])
            ELSE NoValues
    IN  [m |-> IF result.some
               THEN [m EXCEPT !.recently_used = cache_set(@, key)]
               ELSE m,
         result |-> result]

\* Mutexed::get finding nothing where the entry holds no values.
get_skips_empty(m, key, block) ==
    LET b == get_block(m, key, block)
        result ==
            IF /\ b.some
               /\ <<b.number, key>> \in DOMAIN m.entries
               /\ m.entries[<<b.number, key>>] # <<>>
            THEN SomeValues(m.entries[<<b.number, key>>])
            ELSE NoValues
    IN  [m |-> IF result.some
               THEN [m EXCEPT !.recently_used = cache_set(@, key)]
               ELSE m,
         result |-> result]

\* Mutexed::get: the state after the call and the values found, if any.
get(m, key, block) ==
    LET b == get_block(m, key, block)
        result ==
            IF b.some /\ <<b.number, key>> \in DOMAIN m.entries
            THEN SomeValues(m.entries[<<b.number, key>>])
            ELSE NoValues
    IN  [m |-> IF result.some /\ result.values # <<>>
               THEN [m EXCEPT !.recently_used = cache_set(@, key)]
               ELSE m,
         result |-> result]

\* The first loop of Mutexed::insert recording the block of the insertion
\* as the most recent one, whatever block was recorded.
insert_keys_at_last_block(m, block, keys) ==
    [m EXCEPT
        !.cached_most_recently_at_block =
            [k \in DOMAIN @ \cup keys |-> IF k \in keys THEN block ELSE @[k]],
        !.entries =
            [p \in DOMAIN @ \cup {<<block, k>> : k \in keys} |->
                IF p[1] = block /\ p[2] \in keys THEN <<>> ELSE @[p]]]

\* The empty entries Mutexed::insert creates, one per key.
insert_keys(m, block, keys) ==
    [m EXCEPT
        !.cached_most_recently_at_block =
            [k \in DOMAIN @ \cup keys |->
                IF k \in keys
                THEN IF k \in DOMAIN @ THEN Max(@[k], block) ELSE block
                ELSE @[k]],
        !.entries =
            [p \in DOMAIN @ \cup {<<block, k>> : k \in keys} |->
                IF p[1] = block /\ p[2] \in keys THEN <<>> ELSE @[p]]]

\* Mutexed::insert without its first loop: only the keys that values were
\* found for get an entry.
insert_only_found(m, block, keys, values) ==
    LET found == {k \in keys : \E i \in DOMAIN values : for_value(values[i]) = k}
        e == insert_keys(m, block, found)
    IN  [e EXCEPT
            !.entries =
                [p \in DOMAIN @ |->
                    IF p[1] = block /\ p[2] \in found
                    THEN SelectSeq(values, LAMBDA v : for_value(v) = p[2])
                    ELSE @[p]]]

\* Mutexed::insert: an entry per key, then every value pushed to the entry
\* of its key.
insert(m, block, keys, values) ==
    LET e == insert_keys(m, block, keys)
    IN  [e EXCEPT
            !.entries =
                [p \in DOMAIN @ |->
                    IF p[1] = block /\ p[2] \in keys
                    THEN SelectSeq(values, LAMBDA v : for_value(v) = p[2])
                    ELSE @[p]]]

\* The order of the BTreeMap keys (u64, K): p >= q.
tuple_ge(p, q) == p[1] > q[1] \/ (p[1] = q[1] /\ p[2] >= q[2])

\* remove_cached_blocks_older_than splitting off the entries and leaving the
\* index of most recently cached blocks as it is.
remove_cached_blocks_keeping_index(m, oldest_to_keep) ==
    [m EXCEPT
        !.entries =
            [p \in {q \in DOMAIN @ : tuple_ge(q, <<oldest_to_keep, first_ord>>)}
                |-> @[p]]]

\* Mutexed::remove_cached_blocks_older_than
remove_cached_blocks_older_than(m, oldest_to_keep) ==
    [m EXCEPT
        !.entries =
            [p \in {q \in DOMAIN @ : tuple_ge(q, <<oldest_to_keep, first_ord>>)}
                |-> @[p]],
        !.cached_most_recently_at_block =
            [k \in {j \in DOMAIN @ : @[j] >= oldest_to_keep} |-> @[k]]]

\* Mutexed::keys_of_recently_used_entries, collected into a HashSet
keys_of_recently_used_entries(m) == Range(m.recently_used)

(***************************************************************************)
(* The callers of the cache.                                               *)
(***************************************************************************)
\* A caller that is in no call; `locked` when it holds the MutexGuard of
\* self.mutexed.
Idle ==
    [pc |-> "idle", keys |-> <<>>, block |-> Recent, hits |-> <<>>,
     rest |-> <<>>, number |-> 0, call |-> 0, got |-> <<>>, missed |-> {},
     failed |-> {}, disturbed |-> FALSE, locked |-> FALSE]

\* A guard that lives until the call returns, across every await.
guard_kept_at_await == TRUE

\* Whether a call still holds the MutexGuard when it reaches the await of
\* fetch_inner_many: the guard of fetch is a local of the block closed before
\* the loop over the chunks and then of the loop body, which ends before the
\* next await; the guard of update_cache_at_block is a temporary of the
\* statement that collects the keys.
guard_at_await == FALSE

\* self.mutexed.lock() returns at once: no caller holds the guard.
lock == \A u \in Tasks : ~task[u].locked

\* The call a call follows at once, reduced to what it was and returned.
NoCall ==
    [op |-> "none", keys |-> <<>>, block |-> Recent, missed |-> {},
     result |-> Ok(<<>>), failed |-> {}, disturbed |-> FALSE]

Brief(e) ==
    IF e.what = "returned"
    THEN [op |-> e.op, keys |-> e.keys, block |-> e.block, missed |-> e.missed,
          result |-> e.result, failed |-> e.failed, disturbed |-> e.disturbed]
    ELSE NoCall

\* The last step was no step of a call.
NoEvent ==
    [what |-> "none", op |-> "none", task |-> 0, first |-> FALSE,
     keys |-> <<>>, block |-> Recent, number |-> 0, missed |-> {},
     result |-> Ok(<<>>), failed |-> {}, disturbed |-> FALSE,
     added |-> {}, dropped |-> {}, follows |-> NoCall]

\* The keys the step from the cache m to the cache n has put in the
\* recently used set, and the entries it has removed.
AddedKeys(m, n) == Range(n.recently_used) \ Range(m.recently_used)

DroppedEntries(m, n) == DOMAIN m.entries \ DOMAIN n.entries

\* The last step was the first of the call op(keys, block) of t, which found
\* `hits` and went on to await the keys `missed` at Number(number); it took
\* the cache from m to n, and the step before it returned the call `follows`,
\* if it returned one.
StartedCall(op, t, keys, block, number, missed, hits, m, n, follows) ==
    [what |-> "started", op |-> op, task |-> t, first |-> TRUE,
     keys |-> keys, block |-> block, number |-> number, missed |-> missed,
     result |-> Ok(hits), failed |-> {}, disturbed |-> FALSE,
     added |-> AddedKeys(m, n), dropped |-> DroppedEntries(m, n),
     follows |-> follows]

\* The last step returned `result` from the call op(keys, block) of t, which
\* had awaited the keys `missed` at Number(number), of which `failed` failed;
\* `first` when that step was the only one of the call.
ReturnedCall(op, t, first, keys, block, number, missed, result, failed, disturbed, m, n, follows) ==
    [what |-> "returned", op |-> op, task |-> t, first |-> first,
     keys |-> keys, block |-> block, number |-> number, missed |-> missed,
     result |-> result, failed |-> failed, disturbed |-> disturbed,
     added |-> AddedKeys(m, n), dropped |-> DroppedEntries(m, n),
     follows |-> follows]

(***************************************************************************)
(* Request sharing and the retry loop of fetch_inner.                      *)
(***************************************************************************)
\* The requests in flight for (key, Number(number)).
InFlight(futs, key, number) ==
    {f \in futs : f.key = key /\ f.number = number}

\* BoxRequestSharing::shared_or_else, by the shared future it hands back: the
\* one in flight for (key, Number(number)) if there is one, else a new one,
\* which the call making the request owns.  A future is named by the serial
\* number of the call that owns it.
shared_or_else(futs, key, number, call) ==
    IF InFlight(futs, key, number) # {}
    THEN (CHOOSE f \in InFlight(futs, key, number) : TRUE).owner
    ELSE call

\* The future fetch_inner hands to shared_or_else, not yet completed.
NewFuture(key, number, call) == [key |-> key, number |-> number, owner |-> call]

\* fetch_inner starting a request of its own for every key, shared with
\* nobody.
Awaited_unshared(futs, chunk, number, call) ==
    [k \in chunk |-> [owner |-> call, done |-> FALSE, out |-> NoValues]]

\* join_all over fetch_inner of every key of the chunk, up to the first
\* await of each: what the call awaits per key, nothing received yet.
Awaited(futs, chunk, number, call) ==
    [k \in chunk |->
        [owner |-> shared_or_else(futs, k, number, call), done |-> FALSE,
         out |-> NoValues]]

\* The requests in flight after the call has started to await `got`.
Started(futs, got, number, call) ==
    futs \cup {NewFuture(k, number, call) :
                   k \in {j \in DOMAIN got : got[j].owner = call}}

\* The caller with locals tk awaits the shared future f.
Awaits(tk, f) ==
    /\ tk.pc \in {"fetching", "updating"}
    /\ tk.number = f.number
    /\ f.key \in DOMAIN tk.got
    /\ tk.got[f.key].owner = f.owner
    /\ ~tk.got[f.key].done

\* The shared future f completes with `out`: every caller awaiting it
\* receives a clone of `out`, and the request is no longer in flight.
Complete(f, out) ==
    /\ futures' = futures \ {f}
    /\ task' =
        [t \in Tasks |->
            IF Awaits(task[t], f)
            THEN [task[t] EXCEPT !.got[f.key] = [@ EXCEPT !.done = TRUE, !.out = out]]
            ELSE task[t]]

\* What the fetcher answers to the successive fetch_values calls of one
\* future, should the loop get that far.
AnswerSeqs(k) == [1 .. config.max_retries + 1 -> FetcherAnswers(k)]

\* The loop `for _ in 0..=retries` of the shared future from attempt i on:
\* Some(values) at the first answer that is Ok, None when every attempt
\* failed (each failed attempt is followed by a sleep).
RECURSIVE retry_loop(_, _)
retry_loop(answers, i) ==
    IF i > config.max_retries
    THEN NoValues
    ELSE IF answers[i + 1].ok
         THEN SomeValues(answers[i + 1].values)
         ELSE retry_loop(answers, i + 1)

(***************************************************************************)
(* The shared future of fetch_inner, attempt by attempt: the record        *)
(*   pc      : "idle", "calling" (in fetch_values), "sleeping", "done"     *)
(*   key     : the key the request is for                                  *)
(*   delay   : delay_between_retries                                       *)
(*   i       : how many iterations of the loop are over                    *)
(*   answers : the answers of the fetcher so far                           *)
(*   slept   : the time spent in tokio::time::sleep so far                 *)
(*   out     : what the future resolved to                                 *)
(* maximum_retries is config.max_retries.                                  *)
(***************************************************************************)
\* No shared future is followed.
NoRetrying ==
    [pc |-> "idle", key |-> 0, delay |-> 0, i |-> 0, answers |-> <<>>,
     slept |-> 0, out |-> NoValues]

\* The loop running one iteration more than 0..=retries.
in_retries_and_one(i) == i <= config.max_retries + 1

\* The range of `for _ in 0..=retries`: the iteration after i of them runs.
in_retries(i) == i <= config.max_retries

\* The future is polled first: the loop enters its first iteration and
\* calls the fetcher (0..=retries is never empty).
FutureStarts ==
    /\ retrying.pc = "idle"
    /\ retrying' = [retrying EXCEPT !.pc = IF in_retries(0) THEN "calling" ELSE "done"]
    /\ OthersUnchanged("retrying")

\* fetcher.fetch_values answers: Ok(values) resolves the future to
\* Some(values), an error is logged and the loop goes on to sleep.
FetchValuesAnswers(answer) ==
    /\ retrying.pc = "calling"
    /\ answer \in FetcherAnswers(retrying.key)
    /\ retrying' =
         IF answer.ok
         THEN [retrying EXCEPT !.pc = "done", !.answers = Append(@, answer),
                               !.out = SomeValues(answer.values)]
         ELSE [retrying EXCEPT !.pc = "sleeping", !.answers = Append(@, answer)]
    /\ OthersUnchanged("retrying")

\* tokio::time::sleep(delay) is over: the iteration ends, and the loop runs
\* its next iteration or is left, when the future resolves to None.
SleepOver ==
    /\ retrying.pc = "sleeping"
    /\ retrying' =
         IF in_retries(retrying.i + 1)
         THEN [retrying EXCEPT !.pc = "calling", !.i = @ + 1,
                               !.slept = @ + retrying.delay]
         ELSE [retrying EXCEPT !.pc = "done", !.i = @ + 1,
                               !.slept = @ + retrying.delay, !.out = NoValues]
    /\ OthersUnchanged("retrying")

\* The shared future f runs to completion against the fetcher.
FutureCompletes(f, answers) ==
    /\ f \in futures
    /\ answers \in AnswerSeqs(f.key)
    /\ Complete(f, retry_loop(answers, 0))
    /\ last' = NoEvent
    /\ UNCHANGED <<config, mutexed, block_stream, ncalls>>

\* fut.await.context("could not fetch liquidity"): Option to Result.
fetch_inner_result(out) == IF out.some THEN Ok(out.values) ELSE Err

RECURSIVE Flatten(_)
Flatten(ss) == IF ss = <<>> THEN <<>> ELSE Head(ss) \o Flatten(Tail(ss))

\* fetch_inner_many on the results of join_all, in the order of keys.iter():
\* filter_map(|res| res.ok()), flatten, collect, Ok.
fetch_inner_many(results) ==
    Ok(Flatten([i \in DOMAIN SelectSeq(results, LAMBDA r : r.ok) |->
                    SelectSeq(results, LAMBDA r : r.ok)[i].values]))

\* The results join_all hands back for the chunk iterated in `order`.
Joined(got, order) ==
    [i \in DOMAIN order |-> fetch_inner_result(got[order[i]].out)]

AllDone(got) == \A k \in DOMAIN got : got[k].done

\* The keys whose shared future gave up.
FailedKeys(got) == {k \in DOMAIN got : ~got[k].out.some}

(***************************************************************************)
(* RecentBlockCache::fetch                                                 *)
(***************************************************************************)
\* Block to Option<u64>, the match at the top of fetch.
block_option(block) ==
    IF block.tag = "Recent" THEN NoBlock ELSE SomeBlock(block.number)

\* The loop over the keys under the lock: hits extended with the values of
\* every key found, the other keys collected into the set of misses.
RECURSIVE partition(_, _, _, _, _)
partition(m, keys, block, hits, misses) ==
    IF keys = <<>>
    THEN [m |-> m, hits |-> hits, misses |-> misses]
    ELSE LET r == get(m, Head(keys), block)
         IN  IF r.result.some
             THEN partition(r.m, Tail(keys), block, hits \o r.result.values, misses)
             ELSE partition(r.m, Tail(keys), block, hits, misses \cup {Head(keys)})

\* block.unwrap_or(last_update_block)
cache_miss_block(block, last_update_block) ==
    IF block.some THEN block.number ELSE last_update_block

\* cache_misses.chunks(REQUEST_BATCH_SIZE): the first chunk and what is left.
first_chunk(vec) == SubSeq(vec, 1, Min(Len(vec), REQUEST_BATCH_SIZE))

after_first_chunk(vec) == SubSeq(vec, Min(Len(vec), REQUEST_BATCH_SIZE) + 1, Len(vec))

\* fetched.iter().map(K::for_value).unique()
RECURSIVE unique_keys(_, _)
unique_keys(values, seen) ==
    IF values = <<>>
    THEN <<>>
    ELSE IF for_value(Head(values)) \in seen
         THEN unique_keys(Tail(values), seen)
         ELSE <<for_value(Head(values))>>
                  \o unique_keys(Tail(values), seen \cup {for_value(Head(values))})

\* for key in found_keys { recently_used.cache_set(key, ()) }
RECURSIVE mark_recently_used(_, _)
mark_recently_used(m, found_keys) ==
    IF found_keys = <<>>
    THEN m
    ELSE mark_recently_used([m EXCEPT !.recently_used = cache_set(@, Head(found_keys))],
                            Tail(found_keys))

\* The body of the loop over the chunks after the await: the state of the
\* cache once the chunk is inserted and its found keys are marked.
insert_chunk(m, number, chunk, fetched) ==
    mark_recently_used(insert(m, number, chunk, fetched), unique_keys(fetched, {}))

\* fetch up to its first await: the keys are partitioned under the lock; with
\* no miss the call returns the hits, else it awaits the first chunk.
FetchStart(t, keys, block) ==
    /\ task[t].pc = "idle"
    /\ lock
    /\ \A u \in Tasks : u < t => task[u].pc # "idle"
    /\ ncalls' = ncalls + 1
    /\ LET p == partition(mutexed, keys, block_option(block), <<>>, {})
           number == cache_miss_block(block_option(block), mutexed.last_update_block)
       IN  /\ mutexed' = p.m
           /\ IF p.misses = {}
              THEN /\ last' = ReturnedCall("fetch", t, TRUE, keys, block, number, {},
                                            Ok(p.hits), {}, FALSE, mutexed, p.m, Brief(last))
                   /\ UNCHANGED <<task, futures>>
              ELSE \E vec \in Orders(p.misses) :
                     LET got == Awaited(futures, Range(first_chunk(vec)), number, ncalls + 1)
                     IN  /\ task' = [task EXCEPT ![t] =
                                [pc |-> "fetching", keys |-> keys, block |-> block,
                                 hits |-> p.hits, rest |-> after_first_chunk(vec),
                                 number |-> number, call |-> ncalls + 1,
                                 got |-> got, missed |-> p.misses, failed |-> {},
                                 disturbed |-> FALSE, locked |-> guard_at_await]]
                         /\ futures' = Started(futures, got, number, ncalls + 1)
                         /\ last' = StartedCall("fetch", t, keys, block, number,
                                                 p.misses, p.hits, mutexed, p.m,
                                                 Brief(last))
    /\ UNCHANGED <<config, block_stream>>

\* The callers once t has written entries to the cache: every other fetch in
\* flight has run alongside a write that is not its own.
Disturbed(t) ==
    [u \in Tasks |->
        IF u # t /\ task[u].pc = "fetching"
        THEN [task[u] EXCEPT !.disturbed = TRUE]
        ELSE task[u]]

\* fetch after the await of a chunk: a failure of fetch_inner_many is
\* returned; else the chunk is inserted under the lock and the call goes on
\* to the next chunk or returns.
FetchChunk(t) ==
    /\ task[t].pc = "fetching"
    /\ AllDone(task[t].got)
    /\ \E order \in Orders(DOMAIN task[t].got) :
         LET tk == task[t]
             r == fetch_inner_many(Joined(tk.got, order))
             failed == tk.failed \cup FailedKeys(tk.got)
             hits == tk.hits \o r.values
         IN  IF ~r.ok
             THEN /\ last' = ReturnedCall("fetch", t, FALSE, tk.keys, tk.block, tk.number,
                                           tk.missed, Err, failed, tk.disturbed, mutexed,
                                           mutexed, NoCall)
                  /\ task' = [task EXCEPT ![t] = Idle]
                  /\ UNCHANGED <<mutexed, futures>>
             ELSE /\ lock
                  /\ mutexed' = insert_chunk(mutexed, tk.number, DOMAIN tk.got, r.values)
                  /\ IF tk.rest = <<>>
                     THEN /\ last' = ReturnedCall("fetch", t, FALSE, tk.keys, tk.block,
                                                   tk.number, tk.missed, Ok(hits), failed,
                                                   tk.disturbed, mutexed, mutexed', NoCall)
                          /\ task' = [Disturbed(t) EXCEPT ![t] = Idle]
                          /\ UNCHANGED futures
                     ELSE LET got == Awaited(futures, Range(first_chunk(tk.rest)),
                                             tk.number, tk.call)
                          IN  /\ task' = [Disturbed(t) EXCEPT ![t] =
                                     [tk EXCEPT !.hits = hits,
                                                !.rest = after_first_chunk(tk.rest),
                                                !.got = got, !.failed = failed,
                                                !.locked = guard_at_await]]
                              /\ futures' = Started(futures, got, tk.number, tk.call)
                              /\ last' = NoEvent
    /\ UNCHANGED <<config, block_stream, ncalls>>

(***************************************************************************)
(* RecentBlockCache::update_cache / update_cache_at_block                  *)
(***************************************************************************)
\* update_cache reads the current block, to which the stream has advanced
\* by then; update_cache_at_block collects the recently used keys under the
\* lock and awaits fetch_inner_many.
UpdateStart(t, new_block) ==
    /\ task[t].pc = "idle"
    /\ lock
    /\ \A u \in Tasks : u < t => task[u].pc # "idle"
    /\ ncalls' = ncalls + 1
    /\ new_block \in block_stream .. MaxBlock
    /\ block_stream' = new_block
    /\ LET keys == keys_of_recently_used_entries(mutexed)
           got == Awaited(futures, keys, new_block, ncalls + 1)
       IN  /\ task' = [task EXCEPT ![t] =
                  [Idle EXCEPT !.pc = "updating", !.block = Number(new_block),
                               !.number = new_block, !.call = ncalls + 1,
                               !.got = got, !.missed = keys,
                               !.locked = guard_at_await]]
           /\ futures' = Started(futures, got, new_block, ncalls + 1)
           /\ last' = StartedCall("update", t, <<>>, Number(new_block), new_block,
                                   keys, <<>>, mutexed, mutexed, Brief(last))
    /\ UNCHANGED <<config, mutexed>>

\* The second critical section keeping one block more than configured.
update_finish_keeps_more(m, new_block, keys, found_values) ==
    [remove_cached_blocks_older_than(
         insert(m, new_block, keys, found_values),
         saturating_sub(new_block, config.number_of_blocks_to_cache))
     EXCEPT !.last_update_block = new_block]

\* The second critical section leaving last_update_block as it was.
update_finish_same_block(m, new_block, keys, found_values) ==
    remove_cached_blocks_older_than(
        insert(m, new_block, keys, found_values),
        saturating_sub(new_block, config.number_of_blocks_to_cache - 1))

\* The second critical section of update_cache_at_block.
update_finish(m, new_block, keys, found_values) ==
    [remove_cached_blocks_older_than(
         insert(m, new_block, keys, found_values),
         saturating_sub(new_block, config.number_of_blocks_to_cache - 1))
     EXCEPT !.last_update_block = new_block]

\* update_cache_at_block after the await.
UpdateFinish(t) ==
    /\ task[t].pc = "updating"
    /\ AllDone(task[t].got)
    /\ \E order \in Orders(DOMAIN task[t].got) :
         LET tk == task[t]
             r == fetch_inner_many(Joined(tk.got, order))
             failed == FailedKeys(tk.got)
         IN  IF ~r.ok
             THEN /\ last' = ReturnedCall("update", t, FALSE, <<>>, tk.block, tk.number,
                                           tk.missed, Err, failed, FALSE, mutexed, mutexed,
                                           NoCall)
                  /\ task' = [task EXCEPT ![t] = Idle]
                  /\ UNCHANGED mutexed
             ELSE /\ lock
                  /\ mutexed' = update_finish(mutexed, tk.number, DOMAIN tk.got, r.values)
                  /\ last' = ReturnedCall("update", t, FALSE, <<>>, tk.block, tk.number,
                                           tk.missed, Ok(<<>>), failed, FALSE, mutexed,
                                           mutexed', NoCall)
                  /\ task' = [Disturbed(t) EXCEPT ![t] = Idle]
    /\ UNCHANGED <<config, block_stream, futures, ncalls>>

(***************************************************************************)
(* BigRational (crate `num`): a fraction num / den in lowest terms with    *)
(* den > 0.  A division by zero, at which BigRational panics, yields the   *)
(* fraction with den = 0.                                                  *)
(***************************************************************************)
Abs(n) == IF n < 0 THEN -n ELSE n

RECURSIVE GCD(_, _)
GCD(a, b) == IF b = 0 THEN a ELSE GCD(b, a % b)

Rat(n, d) ==
    IF d = 0
    THEN [num |-> 0, den |-> 0]
    ELSE LET g == GCD(Abs(n), Abs(d))
             sign == IF d < 0 THEN -1 ELSE 1
         IN  [num |-> (sign * n) \div g, den |-> (sign * d) \div g]

RatZero == Rat(0, 1)

RatOne == Rat(1, 1)

RatAdd(a, b) == Rat(a.num * b.den + b.num * a.den, a.den * b.den)

RatSub(a, b) == Rat(a.num * b.den - b.num * a.den, a.den * b.den)

RatMul(a, b) == Rat(a.num * b.num, a.den * b.den)

RatDiv(a, b) == Rat(a.num * b.den, a.den * b.num)

RatNeg(a) == Rat(-a.num, a.den)

RatLe(a, b) == a.num * b.den <= b.num * a.den

RatLt(a, b) == a.num * b.den < b.num * a.den

\* std::cmp::min on BigRational
RatMin(a, b) == IF RatLe(a, b) THEN a ELSE b

(***************************************************************************)
(* U256, f64 and the conversions between them and BigRational.             *)
(***************************************************************************)
\* U256::MAX
U256_MAX == 2 ^ U256Bits - 1

\* U256::saturating_mul
saturating_mul(a, b) == IF a * b > U256_MAX THEN U256_MAX ELSE a * b

\* An f64 is NaN, an infinity, or a finite value that is a fraction with a
\* power of two as denominator.
NaN == [class |-> "nan", rat |-> RatZero]

Infinity == [class |-> "inf", rat |-> RatZero]

Finite(r) == [class |-> "finite", rat |-> r]

\* Option<f64>, Option<BigRational>
NoFloat == [some |-> FALSE, float |-> NaN]

SomeFloat(x) == [some |-> TRUE, float |-> x]

NoRat == [some |-> FALSE, rat |-> RatZero]

SomeRat(r) == [some |-> TRUE, rat |-> r]

\* BigRational::from_float: the exact value of a finite float, else None.
from_float(x) == IF x.class = "finite" THEN SomeRat(x.rat) ELSE NoRat

\* U256::from_f64_lossy on a float that is not negative: its integer part,
\* U256::MAX when that does not fit.
from_f64_lossy(x) ==
    IF x.class = "nan"
    THEN 0
    ELSE IF x.class = "inf" \/ x.rat.num \div x.rat.den > U256_MAX
         THEN U256_MAX
         ELSE x.rat.num \div x.rat.den

\* Result<U256>
U256Ok(n) == [ok |-> TRUE, value |-> n, error |-> ""]

U256Err(e) == [ok |-> FALSE, value |-> 0, error |-> e]

\* number::conversions::big_rational_to_u256: the integer part of the
\* fraction, an error when the fraction is negative or its integer part does
\* not fit a U256.
big_rational_to_u256(r) ==
    IF r.den = 0 \/ r.num < 0 \/ r.num \div r.den > U256_MAX
    THEN U256Err("not a U256")
    ELSE U256Ok(r.num \div r.den)

\* Result::unwrap_or_default on a Result<U256>
unwrap_or_default(r) == IF r.ok THEN r.value ELSE 0

(***************************************************************************)
(* The score with success probability.                                     *)
(***************************************************************************)
\* model::solver_competition::Score
Solver(n) == [tag |-> "Solver", value |-> n]

Discounted(n) == [tag |-> "Discounted", value |-> n]

Protocol(n) == [tag |-> "Protocol", value |-> n]

\* Result<BigRational>, Result<Score>
BidOk(r) == [ok |-> TRUE, value |-> r, error |-> ""]

BidErr(e) == [ok |-> FALSE, value |-> RatZero, error |-> e]

ScoreOk(score) == [ok |-> TRUE, value |-> score, error |-> ""]

ScoreErr(e) == [ok |-> FALSE, value |-> Protocol(0), error |-> e]

\* fn payoff
payoff(score_reference, objective, probability_success, cost_fail, cap) ==
    LET probability_fail == RatSub(RatOne, probability_success)
        payoff_success == RatMin(RatSub(objective, score_reference), cap)
        payoff_fail == RatSub(RatNeg(RatMin(score_reference, cap)), cost_fail)
    IN  RatAdd(RatMul(probability_success, payoff_success),
               RatMul(probability_fail, payoff_fail))

\* compute_optimal_bid asking for a positive payoff at objective - cap.
compute_optimal_bid_strict(objective, probability_success, cost_fail, cap) ==
    LET probability_fail == RatSub(RatOne, probability_success)
        payoff_obj_minus_cap ==
            payoff(RatSub(objective, cap), objective, probability_success, cost_fail, cap)
        payoff_cap == payoff(cap, objective, probability_success, cost_fail, cap)
    IN  IF RatLt(RatZero, payoff_obj_minus_cap) /\ RatLe(payoff_cap, RatZero)
        THEN BidOk(RatSub(RatMul(probability_success, objective),
                          RatMul(probability_fail, cost_fail)))
        ELSE IF RatLt(RatZero, payoff_obj_minus_cap) /\ RatLt(RatZero, payoff_cap)
        THEN BidOk(RatSub(objective,
                          RatMul(RatDiv(probability_fail, probability_success),
                                 RatAdd(cap, cost_fail))))
        ELSE BidErr("Invalid bid")

\* fn compute_optimal_bid; the third condition repeats the second, as in the
\* source.
compute_optimal_bid(objective, probability_success, cost_fail, cap) ==
    LET probability_fail == RatSub(RatOne, probability_success)
        payoff_obj_minus_cap ==
            payoff(RatSub(objective, cap), objective, probability_success, cost_fail, cap)
        payoff_cap == payoff(cap, objective, probability_success, cost_fail, cap)
    IN  IF RatLe(RatZero, payoff_obj_minus_cap) /\ RatLe(payoff_cap, RatZero)
        THEN BidOk(RatSub(RatMul(probability_success, objective),
                          RatMul(probability_fail, cost_fail)))
        ELSE IF RatLe(RatZero, payoff_obj_minus_cap) /\ RatLt(RatZero, payoff_cap)
        THEN BidOk(RatSub(objective,
                          RatMul(RatDiv(probability_fail, probability_success),
                                 RatAdd(cap, cost_fail))))
        ELSE IF RatLe(RatZero, payoff_obj_minus_cap) /\ RatLt(RatZero, payoff_cap)
        THEN BidOk(RatSub(RatMul(RatDiv(probability_success, probability_fail), cap),
                          cost_fail))
        ELSE BidErr("Invalid bid")

\* The check of the success probability leaving out its upper bound.
in_unit_interval_open(x) == x.class = "finite" /\ RatLe(RatZero, x.rat)

\* success_probability >= 0.0 && success_probability <= 1.0
in_unit_interval(x) ==
    x.class = "finite" /\ RatLe(RatZero, x.rat) /\ RatLe(x.rat, RatOne)

\* fn compute_score_with_success_probability
compute_score_with_success_probability(objective_value, success_probability) ==
    IF ~in_unit_interval(success_probability)
    THEN ScoreErr("success probability must be between 0 and 1.")
    ELSE IF ~from_float(success_probability).some
    THEN ScoreErr("Invalid success probability.")
    ELSE LET optimal_score ==
                 compute_optimal_bid(objective_value,
                                     from_float(success_probability).rat,
                                     from_float(Finite(RatZero)).rat,
                                     from_float(Finite(Rat(1, 2))).rat)
             score == big_rational_to_u256(optimal_score.value)
         IN  IF ~optimal_score.ok
             THEN ScoreErr(optimal_score.error)
             ELSE IF ~score.ok
             THEN ScoreErr("Invalid score.")
             ELSE ScoreOk(Protocol(score.value))

\* The objective values and the success probabilities the score is computed
\* for: quarters from -2 to beyond U256::MAX, eighths from -1/4 to 5/4, NaN.
ObjectiveValues == {Rat(n, 4) : n \in -8 .. 4 * U256_MAX + 8}

SuccessProbabilities == {Finite(Rat(k, 8)) : k \in -2 .. 10} \cup {NaN}

\* No call of compute_score_with_success_probability.
NoScoring ==
    [pc |-> "idle", objective_value |-> RatZero, success_probability |-> NaN,
     bid |-> BidErr(""), out |-> ScoreErr("")]

\* A call of compute_score_with_success_probability that has not run yet.
ScoringCalled(objective_value, success_probability) ==
    [pc |-> "called", objective_value |-> objective_value,
     success_probability |-> success_probability, bid |-> BidErr(""),
     out |-> ScoreErr("")]

(***************************************************************************)
(* SettlementRater::rate_settlement: one call, and the node it talks to.   *)
(* What the node will answer to each request of the call is drawn when the *)
(* call begins, so that a request the call never makes has an answer too.  *)
(* The access list, which generate_access_list estimates before each       *)
(* simulation and which may be missing, is carried into the simulated      *)
(* transaction only and is left out, as are prices, id and earned fees.    *)
(***************************************************************************)
\* InternalizationStrategy
EncodeAllInteractions == "EncodeAllInteractions"

SkipInternalizableInteraction == "SkipInternalizableInteraction"

\* What the node answers to the requests of one simulate_settlement: the
\* block number request fails, the simulation request fails, the simulation
\* reverts, or it yields a gas estimate.
SimAnswers ==
    {[kind |-> k, gas |-> 0] : k \in {"block_number_error", "request_error", "revert"}}
        \cup {[kind |-> "estimate", gas |-> g] : g \in 1 .. MaxGas}

\* What the node answers to eth().balance(): an error or a balance.
BalanceAnswers == {U256Err("node")} \cup {U256Ok(n) : n \in 0 .. MaxGas * MaxFee}

\* GasPrice1559 by max_fee_per_gas and by what effective_gas_price() yields.
GasPrices ==
    {[max_fee_per_gas |-> Finite(Rat(f, 1)), effective_gas_price |-> Finite(Rat(f, 1))] :
         f \in 1 .. MaxFee}
        \cup {[max_fee_per_gas |-> Infinity, effective_gas_price |-> Infinity],
              [max_fee_per_gas |-> Infinity, effective_gas_price |-> Finite(RatOne)]}

\* settlement.score: Option<shared::http_solver::model::Score>
NoScore == [some |-> FALSE, tag |-> "Solver", value |-> 0]

SolverScore(n) == [some |-> TRUE, tag |-> "Solver", value |-> n]

DiscountScore(n) == [some |-> TRUE, tag |-> "Discount", value |-> n]

\* The settlements rated, by score and success probability.
Settlements ==
    [score : {NoScore, SolverScore(3), DiscountScore(1)},
     success_probability :
         {NoFloat, SomeFloat(Finite(Rat(3, 2))), SomeFloat(Finite(RatZero)),
          SomeFloat(Finite(Rat(1, 2))), SomeFloat(Finite(RatOne))}]

\* The objective values of the settlements rated: negative, a fraction, an
\* integer, and one that does not fit a U256.
RatedObjectives == {Rat(-1, 1), Rat(1, 4), Rat(2, 1), Rat(U256_MAX + 1, 1)}

\* SimulationError of a Rating::Err
NoError == [tag |-> "none", needs |-> 0, has |-> 0]

Revert == [tag |-> "Revert", needs |-> 0, has |-> 0]

InsufficientBalance(needs, has) ==
    [tag |-> "InsufficientBalance", needs |-> needs, has |-> has]

\* Result<Rating>: not returned yet, Ok(Rating::Ok(rated settlement)),
\* Ok(Rating::Err(simulation with error)), Err(anyhow error).
NoRating ==
    [kind |-> "none", internalization |-> "none", error |-> NoError,
     score |-> Protocol(0), message |-> ""]

RatingOk(internalization, score) ==
    [kind |-> "Rating::Ok", internalization |-> internalization, error |-> NoError,
     score |-> score, message |-> ""]

RatingErr(internalization, error) ==
    [kind |-> "Rating::Err", internalization |-> internalization, error |-> error,
     score |-> Protocol(0), message |-> ""]

RatingFailed(message) ==
    [kind |-> "Err", internalization |-> "none", error |-> NoError,
     score |-> Protocol(0), message |-> message]

\* No call of rate_settlement.
NoRatingCall ==
    [pc |-> "idle", internalization |-> "none",
     settlement |-> [score |-> NoScore, success_probability |-> NoFloat],
     objective_value |-> RatZero,
     gas_price |-> [max_fee_per_gas |-> NaN, effective_gas_price |-> NaN],
     node |-> [uninternalized |-> [kind |-> "revert", gas |-> 0],
               internalized |-> [kind |-> "revert", gas |-> 0],
               balance |-> U256Err("node")],
     gas_estimate |-> 0, log |-> <<>>, result |-> NoRating]

\* rate_settlement has been called and has made no request yet.
RatingCalled(settlement, objective_value, gas_price, node) ==
    [NoRatingCall EXCEPT !.pc = "uninternalized", !.settlement = settlement,
                         !.objective_value = objective_value,
                         !.gas_price = gas_price, !.node = node]

\* settlement_submission::gas_limit_for_estimate: the estimate times a safety
\* factor of 1.2.
gas_limit_for_estimate(gas_estimate) ==
    IF (gas_estimate * 12) \div 10 > U256_MAX
    THEN U256_MAX
    ELSE (gas_estimate * 12) \div 10

\* simulate_settlement taking a simulation that reverts for one that
\* succeeds.
simulate_settlement_never_fails(answer, internalization) ==
    IF answer.kind \in {"block_number_error", "request_error"}
    THEN [ok |-> FALSE, tag |-> "none", internalization |-> internalization,
          gas_estimate |-> 0, message |-> "failed"]
    ELSE [ok |-> TRUE, tag |-> "Ok", internalization |-> internalization,
          gas_estimate |-> IF answer.kind = "estimate" THEN answer.gas ELSE 1,
          message |-> ""]

\* simulate_settlement on the answer of the node: Err(anyhow) when a request
\* fails, else Ok(SimulationResult), which is Ok with the gas estimate or Err
\* with the failed simulation.
simulate_settlement(answer, internalization) ==
    IF answer.kind = "block_number_error"
    THEN [ok |-> FALSE, tag |-> "none", internalization |-> internalization,
          gas_estimate |-> 0, message |-> "block number"]
    ELSE IF answer.kind = "request_error"
    THEN [ok |-> FALSE, tag |-> "none", internalization |-> internalization,
          gas_estimate |-> 0, message |-> "failed to simulate settlements"]
    ELSE IF answer.kind = "estimate"
    THEN [ok |-> TRUE, tag |-> "Ok", internalization |-> internalization,
          gas_estimate |-> answer.gas, message |-> ""]
    ELSE [ok |-> TRUE, tag |-> "Err", internalization |-> internalization,
          gas_estimate |-> 0, message |-> ""]

\* The answer of the node to the simulation with the given strategy.
NodeAnswer(node, internalization) ==
    IF internalization = EncodeAllInteractions
    THEN node.uninternalized
    ELSE node.internalized

\* The base score with a discount subtracted that does not saturate.
base_score_plain_sub(score, objective_value) ==
    IF score.some
    THEN IF score.tag = "Solver"
         THEN Solver(score.value)
         ELSE Discounted(unwrap_or_default(big_rational_to_u256(objective_value))
                             - score.value)
    ELSE Protocol(unwrap_or_default(big_rational_to_u256(objective_value)))

\* let score = match &settlement.score
base_score(score, objective_value) ==
    IF score.some
    THEN IF score.tag = "Solver"
         THEN Solver(score.value)
         ELSE Discounted(saturating_sub(
                  unwrap_or_default(big_rational_to_u256(objective_value)),
                  score.value))
    ELSE Protocol(unwrap_or_default(big_rational_to_u256(objective_value)))

\* The final score handing on a failed computation as a score of zero.
final_score_no_fallback(settlement, objective_value) ==
    IF settlement.success_probability.some
    THEN compute_score_with_success_probability(
             objective_value, settlement.success_probability.float).value
    ELSE base_score(settlement.score, objective_value)

\* let score = match settlement.success_probability
final_score(settlement, objective_value) ==
    LET score == base_score(settlement.score, objective_value)
    IN  IF settlement.success_probability.some
        THEN LET r == compute_score_with_success_probability(
                          objective_value, settlement.success_probability.float)
             IN  IF r.ok THEN r.value ELSE score
        ELSE score

\* rate_settlement without the check of the balance.
rate_without_balance_check(r, balance_answer) ==
    RatingOk(r.internalization, final_score(r.settlement, r.objective_value))

\* rate_settlement reporting the balance as needed and the need as had.
rate_with_balance_swapped(r, balance_answer) ==
    LET solver_balance == unwrap_or_default(balance_answer)
        gas_limit == gas_limit_for_estimate(r.gas_estimate)
        required_balance ==
            saturating_mul(gas_limit, from_f64_lossy(r.gas_price.max_fee_per_gas))
    IN  IF solver_balance < required_balance
        THEN RatingErr(r.internalization,
                       InsufficientBalance(solver_balance, required_balance))
        ELSE RatingOk(r.internalization, final_score(r.settlement, r.objective_value))

\* rate_settlement from the answer to the balance request on.
rate_with_balance(r, balance_answer) ==
    LET solver_balance == unwrap_or_default(balance_answer)
        gas_limit == gas_limit_for_estimate(r.gas_estimate)
        required_balance ==
            saturating_mul(gas_limit, from_f64_lossy(r.gas_price.max_fee_per_gas))
    IN  IF solver_balance < required_balance
        THEN RatingErr(r.internalization,
                       InsufficientBalance(required_balance, solver_balance))
        ELSE RatingOk(r.internalization, final_score(r.settlement, r.objective_value))

\* rate_settlement starts a simulation: the one with all interactions
\* encoded first, the one that skips internalizable interactions second.
SimulateStart ==
    /\ rating.pc \in {"uninternalized", "internalized"}
    /\ LET internalization ==
               IF rating.pc = "uninternalized"
               THEN EncodeAllInteractions
               ELSE SkipInternalizableInteraction
       IN  rating' = [rating EXCEPT
                          !.pc = "simulating",
                          !.internalization = internalization,
                          !.log = Append(@, <<"start", internalization>>)]
    /\ OthersUnchanged("rating")

\* simulate_settlement returns: its error is returned, a failed simulation is
\* returned as Rating::Err, the first simulation is followed by the second,
\* and the second by the gas price as a BigRational, which is expected to
\* exist, and by the balance request.
SimulateFinish ==
    /\ rating.pc = "simulating"
    /\ LET r == simulate_settlement(NodeAnswer(rating.node, rating.internalization),
                                    rating.internalization)
           done == [rating EXCEPT !.log = Append(@, <<"done", rating.internalization>>)]
       IN  rating' =
             IF ~r.ok
             THEN [done EXCEPT !.pc = "returned", !.result = RatingFailed(r.message)]
             ELSE IF r.tag = "Err"
             THEN [done EXCEPT !.pc = "returned",
                               !.result = RatingErr(r.internalization, Revert)]
             ELSE IF rating.internalization = EncodeAllInteractions
             THEN [done EXCEPT !.pc = "internalized"]
             ELSE IF ~from_float(rating.gas_price.effective_gas_price).some
             THEN [done EXCEPT !.pc = "panicked", !.gas_estimate = r.gas_estimate]
             ELSE [done EXCEPT !.pc = "balance", !.gas_estimate = r.gas_estimate,
                               !.log = Append(@, <<"start", "balance">>)]
    /\ OthersUnchanged("rating")

\* The balance request returns and rate_settlement runs to its end.
BalanceFinish ==
    /\ rating.pc = "balance"
    /\ rating' = [rating EXCEPT
                      !.pc = "returned",
                      !.log = Append(@, <<"done", "balance">>),
                      !.result = rate_with_balance(rating, rating.node.balance)]
    /\ OthersUnchanged("rating")

\* compute_score_with_success_probability runs; `bid` is what its call of
\* compute_optimal_bid returns, if it gets that far.
ComputeScore ==
    /\ scoring.pc = "called"
    /\ scoring' = [scoring EXCEPT
                       !.pc = "returned",
                       !.bid = IF in_unit_interval(scoring.success_probability)
                               THEN compute_optimal_bid(
                                        scoring.objective_value,
                                        from_float(scoring.success_probability).rat,
                                        RatZero, Rat(1, 2))
                               ELSE BidErr(""),
                       !.out = compute_score_with_success_probability(
                                   scoring.objective_value,
                                   scoring.success_probability)]
    /\ OthersUnchanged("scoring")

(***************************************************************************)
(* DecodedSettlement::new                                                  *)
(***************************************************************************)
\* Call data is a sequence of bytes.  The arguments of settle are cut down
\* to a tuple of four dynamic values, (address[], uint256[], bytes, bytes):
\* the tokens, the clearing prices, and the arrays of trades and of
\* interactions each as one string of bytes.
\* n bytes of zero.
Zeros(n) == [i \in 1 .. n |-> 0]

\* n bytes of b.
Repeat(b, n) == [i \in 1 .. n |-> b]

\* The word of the ABI for the unsigned integer n.
Word(n) ==
    Zeros(WORD - 4) \o <<(n \div 16777216) % 256, (n \div 65536) % 256,
                         (n \div 256) % 256, n % 256>>

\* bytes padded with zeros to a whole number of words.
PadRight(bytes) == bytes \o Zeros((WORD - (Len(bytes) % WORD)) % WORD)

\* The concatenation of the sequences of a sequence.
RECURSIVE Concat(_)
Concat(seqs) == IF seqs = <<>> THEN <<>> ELSE Head(seqs) \o Concat(Tail(seqs))

\* The ABI encoding of an array of words: its length, then its words.
EncodeArray(words) == Word(Len(words)) \o Concat(words)

\* The ABI encoding of a string of bytes: its length, then the bytes, padded
\* to whole words unless `padded` is FALSE.
EncodeBytes(bytes, padded) ==
    Word(Len(bytes)) \o (IF padded THEN PadRight(bytes) ELSE bytes)

\* The ABI-encoded arguments of settle for a settlement: the offsets of the
\* four values, then the values.  With `padded` FALSE the padding of the last
\* value is left out, which no encoder does and the decoder accepts.
settle_arguments(settlement, padded) ==
    LET tokens == EncodeArray(settlement.tokens)
        clearing_prices == EncodeArray(settlement.clearing_prices)
        trades == EncodeBytes(settlement.trades, TRUE)
        interactions == EncodeBytes(settlement.interactions, padded)
        head == 4 * WORD
    IN  Word(head)
        \o Word(head + Len(tokens))
        \o Word(head + Len(tokens) + Len(clearing_prices))
        \o Word(head + Len(tokens) + Len(clearing_prices) + Len(trades))
        \o tokens \o clearing_prices \o trades \o interactions

\* function.selector() of settle: 13d79a0b.
selector == <<19, 215, 154, 11>>

\* Some(bytes) and None of Option<Bytes<[u8; META_DATA_LEN]>>.
SomeBytes(bytes) == [some |-> TRUE, bytes |-> bytes]
NoBytes == [some |-> FALSE, bytes |-> <<>>]

\* The results of decoding a value: Ok(value) and Err.
Decoded(value) == [ok |-> TRUE, value |-> value]
DecodeErr == [ok |-> FALSE, value |-> <<>>]

\* ethabi's peek_32_bytes: the word at offset, an error past the end.
peek_32_bytes(data, offset) ==
    IF offset + WORD > Len(data)
    THEN DecodeErr
    ELSE Decoded(SubSeq(data, offset + 1, offset + WORD))

\* ethabi's as_usize: the integer of a word, an error when it does not fit
\* 32 bits.
as_usize(word) ==
    IF \E i \in 1 .. WORD - 4 : word[i] # 0
    THEN DecodeErr
    ELSE Decoded(word[WORD - 3] * 16777216 + word[WORD - 2] * 65536
                     + word[WORD - 1] * 256 + word[WORD])

\* The integer of the word at offset.
peek_usize(data, offset) ==
    LET word == peek_32_bytes(data, offset)
    IN  IF word.ok THEN as_usize(word.value) ELSE DecodeErr

\* ethabi's take_bytes: len bytes from offset, an error past the end.
take_bytes(data, offset, len) ==
    IF offset + len > Len(data)
    THEN DecodeErr
    ELSE Decoded(SubSeq(data, offset + 1, offset + len))

\* Decoding the array of words whose offset is the index-th word of data.
decode_array(data, index) ==
    LET offset == peek_usize(data, index * WORD)
        len == IF offset.ok THEN peek_usize(data, offset.value) ELSE DecodeErr
    IN  IF ~len.ok \/ offset.value + WORD + len.value * WORD > Len(data)
        THEN DecodeErr
        ELSE Decoded([i \in 1 .. len.value |->
                         SubSeq(data, offset.value + i * WORD + 1,
                                offset.value + (i + 1) * WORD)])

\* Decoding the string of bytes whose offset is the index-th word of data.
decode_bytes(data, index) ==
    LET offset == peek_usize(data, index * WORD)
        len == IF offset.ok THEN peek_usize(data, offset.value) ELSE DecodeErr
    IN  IF len.ok THEN take_bytes(data, offset.value + WORD, len.value) ELSE DecodeErr

\* Ok(DecodedSettlement) and Err(DecodingError) of new and try_new.
DecodedSettlement(tokens, clearing_prices, trades, interactions, metadata) ==
    [ok |-> TRUE, error |-> "", tokens |-> tokens,
     clearing_prices |-> clearing_prices, trades |-> trades,
     interactions |-> interactions, metadata |-> metadata]

DecodingError(error) ==
    [ok |-> FALSE, error |-> error, tokens |-> <<>>, clearing_prices |-> <<>>,
     trades |-> <<>>, interactions |-> <<>>, metadata |-> NoBytes]

\* No result yet.
NoDecoded == DecodingError("")

\* function.decode_input(calldata): the four values of the tuple, read at
\* their offsets; bytes no value reaches are ignored, and a value that
\* reaches past the end of the data is an error.
decode_input(calldata) ==
    LET tokens == decode_array(calldata, 0)
        clearing_prices == decode_array(calldata, 1)
        trades == decode_bytes(calldata, 2)
        interactions == decode_bytes(calldata, 3)
    IN  IF tokens.ok /\ clearing_prices.ok /\ trades.ok /\ interactions.ok
        THEN DecodedSettlement(tokens.value, clearing_prices.value, trades.value,
                               interactions.value, NoBytes)
        ELSE DecodingError("Other")

\* try_new that takes no metadata off the data.
try_new_whole(data, with_metadata) ==
    IF with_metadata /\ Len(data) % WORD # META_DATA_LEN
    THEN DecodingError("Other")
    ELSE decode_input(data)

\* try_new without the check of the length of the data.
try_new_any_length(data, with_metadata) ==
    LET metadata_len == IF with_metadata THEN META_DATA_LEN ELSE 0
    IN  IF metadata_len > Len(data)
        THEN DecodingError("Other")
        ELSE LET calldata == SubSeq(data, 1, Len(data) - metadata_len)
                 metadata == SubSeq(data, Len(data) - metadata_len + 1, Len(data))
                 decoded == decode_input(calldata)
             IN  IF decoded.ok
                 THEN [decoded EXCEPT !.metadata = IF Len(metadata) = META_DATA_LEN
                                                   THEN SomeBytes(metadata)
                                                   ELSE NoBytes]
                 ELSE decoded

\* fn try_new.  data.len() % 32 == META_DATA_LEN makes data.len() at least
\* META_DATA_LEN, so split_at is within the data.
try_new(data, with_metadata) ==
    IF with_metadata /\ Len(data) % WORD # META_DATA_LEN
    THEN DecodingError("Other")
    ELSE LET metadata_len == IF with_metadata THEN META_DATA_LEN ELSE 0
             calldata == SubSeq(data, 1, Len(data) - metadata_len)
             metadata == SubSeq(data, Len(data) - metadata_len + 1, Len(data))
             decoded == decode_input(calldata)
         IN  IF decoded.ok
             THEN [decoded EXCEPT !.metadata = IF Len(metadata) = META_DATA_LEN
                                               THEN SomeBytes(metadata)
                                               ELSE NoBytes]
             ELSE decoded

\* input.strip_prefix(&function.selector())
strip_prefix(input) ==
    IF Len(input) >= Len(selector) /\ SubSeq(input, 1, Len(selector)) = selector
    THEN Decoded(SubSeq(input, Len(selector) + 1, Len(input)))
    ELSE DecodeErr

\* pub fn new
new(input) ==
    LET without_selector == strip_prefix(input)
    IN  IF ~without_selector.ok
        THEN DecodingError("InvalidSelector")
        ELSE IF try_new(without_selector.value, TRUE).ok
        THEN try_new(without_selector.value, TRUE)
        ELSE try_new(without_selector.value, FALSE)

\* The addresses and the prices of the settlements, as words.
Address(n) == Zeros(12) \o Repeat(238, 19) \o <<n>>

\* The settlements that are encoded: up to MaxTokens tokens with as many
\* clearing prices, and trades and interactions of a few lengths.
DecodableSettlements ==
    {[tokens |-> [i \in 1 .. n |-> Address(i)],
      clearing_prices |-> [i \in 1 .. n |-> Word(1000 * i)],
      trades |-> trades, interactions |-> interactions] :
        n \in 0 .. MaxTokens,
        trades \in {<<>>, Repeat(28, 33)},
        interactions \in {<<>>, <<1, 2, 3>>, Repeat(7, META_DATA_LEN)}}

\* The bytes appended to the arguments: none, too few, the metadata, too
\* many, a word and the metadata.
Appended ==
    {<<>>, Repeat(42, 5), Repeat(42, META_DATA_LEN - 1), Repeat(42, META_DATA_LEN),
     <<100>> \o Repeat(42, META_DATA_LEN), Repeat(9, WORD) \o Repeat(42, META_DATA_LEN)}

\* The selectors of the inputs: that of settle and another.
Selectors == {selector, <<19, 215, 154, 12>>}

\* No call of DecodedSettlement::new.
NoDecoding ==
    [pc |-> "idle", settlement |-> [tokens |-> <<>>, clearing_prices |-> <<>>,
                                     trades |-> <<>>, interactions |-> <<>>],
     padded |-> TRUE, prefix |-> <<>>, arguments |-> <<>>, appended |-> <<>>,
     input |-> <<>>, tried |-> <<>>, result |-> NoDecoded]

\* DecodedSettlement::new is called with prefix, the arguments of settle for
\* the settlement and the appended bytes.
DecodingCalled(settlement, padded, prefix, appended) ==
    [NoDecoding EXCEPT
         !.pc = "called", !.settlement = settlement, !.padded = padded,
         !.prefix = prefix,
         !.arguments = settle_arguments(settlement, padded),
         !.appended = appended,
         !.input = prefix \o settle_arguments(settlement, padded) \o appended]

\* new up to the return of try_new(without_selector, function, true).
DecodeWithMetadata ==
    /\ codec.pc = "called"
    /\ LET without_selector == strip_prefix(codec.input)
       IN  IF ~without_selector.ok
           THEN codec' = [codec EXCEPT !.pc = "returned",
                                       !.result = DecodingError("InvalidSelector")]
           ELSE LET decoded == try_new(without_selector.value, TRUE)
                IN  IF decoded.ok
                    THEN codec' = [codec EXCEPT !.pc = "returned",
                                                !.tried = Append(@, TRUE),
                                                !.result = decoded]
                    ELSE codec' = [codec EXCEPT !.pc = "fallback",
                                                !.tried = Append(@, TRUE)]
    /\ OthersUnchanged("codec")

\* new from there on: try_new(without_selector, function, false).
DecodeWithoutMetadata ==
    /\ codec.pc = "fallback"
    /\ codec' = [codec EXCEPT
                     !.pc = "returned",
                     !.tried = Append(@, FALSE),
                     !.result = try_new(strip_prefix(codec.input).value, FALSE)]
    /\ OthersUnchanged("codec")

(***************************************************************************)
(* The surplus and the fees of a decoded settlement.                       *)
(***************************************************************************)
\* OrderKind
Sell == "Sell"
Buy == "Buy"

\* fn buy_order_surplus
buy_order_surplus(sell_token_price, buy_token_price, sell_amount_limit, buy_amount_limit, executed_buy_amount) ==
    IF buy_amount_limit.num = 0
    THEN NoRat
    ELSE LET limit_sell_amount ==
                 RatDiv(RatMul(executed_buy_amount, sell_amount_limit), buy_amount_limit)
             res == RatSub(RatMul(limit_sell_amount, sell_token_price),
                           RatMul(executed_buy_amount, buy_token_price))
         IN  IF res.num < 0 THEN NoRat ELSE SomeRat(res)

\* sell_order_surplus refusing a buy limit of 0 as well.
sell_order_surplus_both_limits(sell_token_price, buy_token_price, sell_amount_limit, buy_amount_limit, executed_sell_amount) ==
    IF sell_amount_limit.num = 0 \/ buy_amount_limit.num = 0
    THEN NoRat
    ELSE LET limit_buy_amount ==
                 RatDiv(RatMul(executed_sell_amount, buy_amount_limit), sell_amount_limit)
             res == RatSub(RatMul(executed_sell_amount, sell_token_price),
                           RatMul(limit_buy_amount, buy_token_price))
         IN  IF res.num < 0 THEN NoRat ELSE SomeRat(res)

\* fn sell_order_surplus
sell_order_surplus(sell_token_price, buy_token_price, sell_amount_limit, buy_amount_limit, executed_sell_amount) ==
    IF sell_amount_limit.num = 0
    THEN NoRat
    ELSE LET limit_buy_amount ==
                 RatDiv(RatMul(executed_sell_amount, buy_amount_limit), sell_amount_limit)
             res == RatSub(RatMul(executed_sell_amount, sell_token_price),
                           RatMul(limit_buy_amount, buy_token_price))
         IN  IF res.num < 0 THEN NoRat ELSE SomeRat(res)

\* fn trade_surplus
trade_surplus(kind, sell_amount, buy_amount, executed_amount, sell_token_price, buy_token_price) ==
    IF kind = Buy
    THEN buy_order_surplus(sell_token_price, buy_token_price, sell_amount,
                           buy_amount, executed_amount)
    ELSE sell_order_surplus(sell_token_price, buy_token_price, sell_amount,
                            buy_amount, executed_amount)

\* U256::to_big_rational of the amounts and the prices of a trade.
Amounts == {Rat(n, 1) : n \in 0 .. MaxAmount}

\* Option<U256>
NoU256 == [some |-> FALSE, value |-> 0]
SomeU256(n) == [some |-> TRUE, value |-> n]

\* U256::checked_mul, checked_div and checked_sub on an Option<U256> and a
\* U256, None going through as `?` makes it.
checked_mul(a, b) ==
    IF a.some /\ a.value * b <= U256_MAX THEN SomeU256(a.value * b) ELSE NoU256

checked_div(a, b) ==
    IF a.some /\ b # 0 THEN SomeU256(a.value \div b) ELSE NoU256

checked_sub(a, b) ==
    IF a.some /\ b.some /\ a.value >= b.value
    THEN SomeU256(a.value - b.value)
    ELSE NoU256

\* TradeFlags::order_kind and TradeFlags::partially_fillable
order_kind(flags) == IF flags % 2 = 0 THEN Sell ELSE Buy

partially_fillable(flags) == (flags \div 2) % 2 # 0

\* matches_execution taking the executed amount into account for every
\* trade.
matches_execution_by_amount(trade, order) ==
    /\ trade.signature = order.signature
    /\ trade.executed_amount = order.executed_amount

\* matches_execution by the signature alone.
matches_execution_by_signature(trade, order) ==
    trade.signature = order.signature

\* DecodedTrade::matches_execution
matches_execution(trade, order) ==
    LET matches_order == trade.signature = order.signature
        matches_execution_ ==
            ~partially_fillable(trade.flags)
                \/ trade.executed_amount = order.executed_amount
    IN  matches_order /\ matches_execution_

\* iter().position(): the index of the first element that satisfies Test,
\* 0 when there is none.
Position(seq, Test(_)) ==
    IF \E i \in DOMAIN seq : Test(seq[i])
    THEN CHOOSE i \in DOMAIN seq :
             Test(seq[i]) /\ \A j \in 1 .. i - 1 : ~Test(seq[j])
    ELSE 0

\* swap_remove that leaves the element in the list.
swap_remove_nothing(seq, i) == seq

\* Vec::swap_remove(i): the last element takes the place of the i-th.
swap_remove(seq, i) ==
    IF i = Len(seq)
    THEN SubSeq(seq, 1, Len(seq) - 1)
    ELSE [SubSeq(seq, 1, Len(seq) - 1) EXCEPT ![i] = seq[Len(seq)]]

\* slice.get(index) on the clearing prices, the index counted from 0.
price_at(clearing_prices, index) ==
    IF index + 1 \in DOMAIN clearing_prices
    THEN SomeU256(clearing_prices[index + 1])
    ELSE NoU256

\* ExternalPrices::try_get_native_amount: the amount times the price of the
\* token in the native token, None for a token without a price.
try_get_native_amount(external_prices, token, amount) ==
    IF token \in DOMAIN external_prices
    THEN SomeRat(RatMul(amount, Rat(external_prices[token], 1)))
    ELSE NoRat

\* Option<Fees>
NoFees == [some |-> FALSE, order |-> 0, sell |-> 0, native |-> 0]
SomeFees(order, sell, native) ==
    [some |-> TRUE, order |-> order, sell |-> sell, native |-> native]

\* fn fee
fee(settlement, external_prices, order, trade) ==
    LET solver_fee ==
            IF order.executed_solver_fee.some
            THEN order.executed_solver_fee
            ELSE LET sell_index ==
                         Position(settlement.tokens, LAMBDA token : token = order.sell_token)
                     buy_index ==
                         Position(settlement.tokens, LAMBDA token : token = order.buy_token)
                     uniform_sell_price == price_at(settlement.clearing_prices, sell_index - 1)
                     uniform_buy_price == price_at(settlement.clearing_prices, buy_index - 1)
                     adjusted_sell_price ==
                         price_at(settlement.clearing_prices, trade.sell_token_index)
                     adjusted_buy_price ==
                         price_at(settlement.clearing_prices, trade.buy_token_index)
                     executed == SomeU256(trade.executed_amount)
                 IN  IF \/ sell_index = 0 \/ buy_index = 0
                        \/ ~uniform_sell_price.some \/ ~uniform_buy_price.some
                        \/ ~adjusted_sell_price.some \/ ~adjusted_buy_price.some
                     THEN NoU256
                     ELSE IF order_kind(trade.flags) = Buy
                     THEN checked_sub(
                              checked_div(checked_mul(executed, adjusted_buy_price.value),
                                          adjusted_sell_price.value),
                              checked_div(checked_mul(executed, uniform_buy_price.value),
                                          uniform_sell_price.value))
                     ELSE checked_sub(
                              executed,
                              checked_div(
                                  checked_mul(
                                      checked_div(
                                          checked_mul(executed, adjusted_sell_price.value),
                                          adjusted_buy_price.value),
                                      uniform_buy_price.value),
                                  uniform_sell_price.value))
        native == IF solver_fee.some
                  THEN try_get_native_amount(external_prices, order.sell_token,
                                             Rat(solver_fee.value, 1))
                  ELSE NoRat
    IN  IF native.some /\ big_rational_to_u256(native.rat).ok
        THEN SomeFees(order.order_uid, solver_fee.value,
                      big_rational_to_u256(native.rat).value)
        ELSE NoFees

\* The fold of total_fees over the trades from the i-th on.  `orders` is the
\* list of executions not used so far, `matched` the supplied executions
\* used, by their place in the supplied list, one for each trade gone
\* through (0 for a trade without one).  U256 + U256 panics on overflow.
RECURSIVE total_fees_fold(_, _, _, _, _, _)
total_fees_fold(settlement, external_prices, i, orders, acc, matched) ==
    IF i > Len(settlement.trades)
    THEN [panicked |-> FALSE, total |-> acc, fees |-> <<>>, matched |-> matched]
    ELSE LET trade == settlement.trades[i]
             at == Position(orders, LAMBDA order : matches_execution(trade, order))
         IN  IF at = 0
             THEN total_fees_fold(settlement, external_prices, i + 1, orders, acc,
                                  Append(matched, 0))
             ELSE LET order == orders[at]
                      fees == fee(settlement, external_prices, order, trade)
                      sum == acc + (IF fees.some THEN fees.native ELSE 0)
                  IN  IF sum > U256_MAX
                      THEN [panicked |-> TRUE, total |-> 0, fees |-> <<>>,
                            matched |-> Append(matched, order.supplied)]
                      ELSE total_fees_fold(settlement, external_prices, i + 1,
                                           swap_remove(orders, at), sum,
                                           Append(matched, order.supplied))

\* pub fn total_fees
total_fees(settlement, external_prices, orders) ==
    total_fees_fold(settlement, external_prices, 1, orders, 0, <<>>)

\* The filter_map of order_executions over the trades from the i-th on.
RECURSIVE order_executions_fold(_, _, _, _, _, _)
order_executions_fold(settlement, external_prices, i, orders, collected, matched) ==
    IF i > Len(settlement.trades)
    THEN [panicked |-> FALSE, total |-> 0, fees |-> collected, matched |-> matched]
    ELSE LET trade == settlement.trades[i]
             at == Position(orders, LAMBDA order : matches_execution(trade, order))
         IN  IF at = 0
             THEN order_executions_fold(settlement, external_prices, i + 1, orders,
                                        collected, Append(matched, 0))
             ELSE LET order == orders[at]
                      fees == fee(settlement, external_prices, order, trade)
                  IN  order_executions_fold(
                          settlement, external_prices, i + 1, swap_remove(orders, at),
                          IF order.solver_determines_fee /\ fees.some
                          THEN Append(collected, fees)
                          ELSE collected,
                          Append(matched, order.supplied))

\* pub fn order_executions
order_executions(settlement, external_prices, orders) ==
    order_executions_fold(settlement, external_prices, 1, orders, <<>>, <<>>)

\* The decoded trades of the settlements: two signatures, and for each a
\* fill-or-kill sell order, a partially fillable sell order and a
\* fill-or-kill buy order.  The token indices address the second pair of
\* tokens of the settlement.
DecodedTrades ==
    {[signature |-> signature, flags |-> v.flags, executed_amount |-> v.executed_amount,
      sell_token_index |-> 2, buy_token_index |-> 3] :
        signature \in 1 .. 2,
        v \in {[flags |-> 0, executed_amount |-> 1],
                [flags |-> 2, executed_amount |-> MaxAmount],
                [flags |-> 1, executed_amount |-> 1]}}

\* The executions of orders: two signatures, and for each one with a stored
\* fee, one with a large stored fee that the solver determined, and one
\* whose fee is to be recovered from the prices.
Executions ==
    {[signature |-> signature, executed_amount |-> v.executed_amount,
      executed_solver_fee |-> v.executed_solver_fee,
      solver_determines_fee |-> v.solver_determines_fee,
      sell_token |-> "A", buy_token |-> "B"] :
        signature \in 1 .. 2,
        v \in {[executed_amount |-> 1, executed_solver_fee |-> SomeU256(1),
                 solver_determines_fee |-> FALSE],
                [executed_amount |-> MaxAmount,
                 executed_solver_fee |-> SomeU256(U256_MAX \div 2 + 1),
                 solver_determines_fee |-> TRUE],
                [executed_amount |-> 1, executed_solver_fee |-> NoU256,
                 solver_determines_fee |-> TRUE]}}

\* The sequences over S of at most n elements.
SeqsUpTo(S, n) == UNION {[1 .. k -> S] : k \in 0 .. n}

\* The executions as they are supplied: each with its uid and its place in
\* the list.
Supplied(executions) ==
    [i \in DOMAIN executions |->
        [order_uid |-> i, supplied |-> i, signature |-> executions[i].signature,
         executed_amount |-> executions[i].executed_amount,
         executed_solver_fee |-> executions[i].executed_solver_fee,
         solver_determines_fee |-> executions[i].solver_determines_fee,
         sell_token |-> executions[i].sell_token,
         buy_token |-> executions[i].buy_token]]

\* The tokens and clearing prices of the settlements, with the external
\* prices of the auction: uniform and adjusted prices alike, the adjusted
\* sell price higher, and clearing prices for the first pair of tokens only
\* with no external price for the sell token.
PricedSettlements ==
    {[tokens |-> <<"A", "B", "A", "B">>, clearing_prices |-> <<2, 1, 2, 1>>,
      external_prices |-> [t \in {"A", "B"} |-> 1]],
     [tokens |-> <<"A", "B", "A", "B">>, clearing_prices |-> <<1, 1, 2, 1>>,
      external_prices |-> [t \in {"A", "B"} |-> 2]],
     [tokens |-> <<"A", "B", "A", "B">>, clearing_prices |-> <<2, 1>>,
      external_prices |-> [t \in {"B"} |-> 1]]}

\* No call of trade_surplus, total_fees or order_executions.
NoTrading ==
    [pc |-> "idle", op |-> "none", kind |-> Sell, sell_amount |-> RatZero,
     buy_amount |-> RatZero, executed_amount |-> RatZero,
     sell_token_price |-> RatZero, buy_token_price |-> RatZero, surplus |-> NoRat,
     settlement |-> [tokens |-> <<>>, clearing_prices |-> <<>>, trades |-> <<>>],
     external_prices |-> <<>>, orders |-> <<>>,
     out |-> [panicked |-> FALSE, total |-> 0, fees |-> <<>>, matched |-> <<>>]]

\* total_fees or order_executions is called on a settlement.
FeesCalled(op, priced, trades, orders) ==
    [NoTrading EXCEPT
         !.pc = "called", !.op = op,
         !.settlement = [tokens |-> priced.tokens,
                         clearing_prices |-> priced.clearing_prices,
                         trades |-> trades],
         !.external_prices = priced.external_prices,
         !.orders = orders]

\* total_fees runs.
TotalFees ==
    /\ trading.pc = "called"
    /\ trading.op = "total_fees"
    /\ trading' = [trading EXCEPT
                       !.pc = "returned",
                       !.out = total_fees(trading.settlement, trading.external_prices,
                                          trading.orders)]
    /\ OthersUnchanged("trading")

\* order_executions runs.
OrderExecutions ==
    /\ trading.pc = "called"
    /\ trading.op = "order_executions"
    /\ trading' = [trading EXCEPT
                       !.pc = "returned",
                       !.out = order_executions(trading.settlement,
                                                trading.external_prices,
                                                trading.orders)]
    /\ OthersUnchanged("trading")

\* trade_surplus is called.
SurplusCalled(kind, sell_amount, buy_amount, executed_amount, sell_token_price, buy_token_price) ==
    [NoTrading EXCEPT
         !.pc = "called", !.op = "trade_surplus", !.kind = kind,
         !.sell_amount = sell_amount, !.buy_amount = buy_amount,
         !.executed_amount = executed_amount,
         !.sell_token_price = sell_token_price,
         !.buy_token_price = buy_token_price]

\* trade_surplus runs.
TradeSurplus ==
    /\ trading.pc = "called"
    /\ trading.op = "trade_surplus"
    /\ trading' = [trading EXCEPT
                       !.pc = "returned",
                       !.surplus = trade_surplus(
                           trading.kind, trading.sell_amount, trading.buy_amount,
                           trading.executed_amount, trading.sell_token_price,
                           trading.buy_token_price)]
    /\ OthersUnchanged("trading")

(***************************************************************************)
(* DecodedSettlement::total_surplus.  u64 is scaled to U64Bits bits as     *)
(* U256 is to U256Bits.                                                    *)
(***************************************************************************)
U64_MAX == 2 ^ U64Bits - 1

\* U256::as_u64 (crate `primitive-types`): the number when it fits in a
\* u64, else a panic.
as_u64(n) ==
    IF n > U64_MAX
    THEN [panicked |-> TRUE, value |-> 0]
    ELSE [panicked |-> FALSE, value |-> n]

\* slice.get(index) on the tokens, the index counted from 0.
token_at(tokens, index) ==
    IF index + 1 \in DOMAIN tokens
    THEN [some |-> TRUE, token |-> tokens[index + 1]]
    ELSE [some |-> FALSE, token |-> ""]

\* What fn surplus yields: a panic, None or Some(U256).
SurplusPanicked == [panicked |-> TRUE, some |-> FALSE, value |-> 0]
NoSurplus == [panicked |-> FALSE, some |-> FALSE, value |-> 0]
SomeSurplus(value) == [panicked |-> FALSE, some |-> TRUE, value |-> value]

\* fn surplus from the surplus of the trade on: the native amount of the
\* surplus divided by the clearing price of the surplus token.
normalized_surplus(kind, tokens, external_prices, sell_index, buy_index, sell_price, buy_price, traded) ==
    LET token == IF kind = Sell
                 THEN token_at(tokens, buy_index)
                 ELSE token_at(tokens, sell_index)
        native == IF ~traded.some \/ ~token.some
                  THEN NoRat
                  ELSE try_get_native_amount(
                           external_prices, token.token,
                           RatDiv(traded.rat,
                                  IF kind = Sell THEN buy_price ELSE sell_price))
    IN  IF native.some /\ big_rational_to_u256(native.rat).ok
        THEN SomeSurplus(big_rational_to_u256(native.rat).value)
        ELSE NoSurplus

\* fn surplus from the clearing prices on.
surplus_at(trade, tokens, clearing_prices, external_prices, sell_index, buy_index) ==
    IF \/ ~price_at(clearing_prices, sell_index).some
       \/ ~price_at(clearing_prices, buy_index).some
    THEN NoSurplus
    ELSE IF (IF order_kind(trade.flags) = Sell
             THEN price_at(clearing_prices, buy_index).value
             ELSE price_at(clearing_prices, sell_index).value) = 0
    THEN NoSurplus
    ELSE normalized_surplus(
             order_kind(trade.flags), tokens, external_prices, sell_index, buy_index,
             Rat(price_at(clearing_prices, sell_index).value, 1),
             Rat(price_at(clearing_prices, buy_index).value, 1),
             trade_surplus(order_kind(trade.flags), Rat(trade.sell_amount, 1),
                           Rat(trade.buy_amount, 1), Rat(trade.executed_amount, 1),
                           Rat(price_at(clearing_prices, sell_index).value, 1),
                           Rat(price_at(clearing_prices, buy_index).value, 1)))

\* fn surplus: the token indices are converted first.
surplus(trade, tokens, clearing_prices, external_prices) ==
    IF \/ as_u64(trade.sell_token_index).panicked
       \/ as_u64(trade.buy_token_index).panicked
    THEN SurplusPanicked
    ELSE surplus_at(trade, tokens, clearing_prices, external_prices,
                    as_u64(trade.sell_token_index).value,
                    as_u64(trade.buy_token_index).value)

\* The fold of total_surplus over the trades from the i-th on; `surpluses`
\* is what each trade gone through added.  U256 + U256 panics on overflow.
RECURSIVE total_surplus_fold(_, _, _, _, _)
total_surplus_fold(settlement, external_prices, i, acc, surpluses) ==
    IF i > Len(settlement.trades)
    THEN [panicked |-> FALSE, total |-> acc, surpluses |-> surpluses]
    ELSE LET one == surplus(settlement.trades[i], settlement.tokens,
                            settlement.clearing_prices, external_prices)
         IN  IF one.panicked \/ acc + one.value > U256_MAX
             THEN [panicked |-> TRUE, total |-> 0, surpluses |-> surpluses]
             ELSE total_surplus_fold(settlement, external_prices, i + 1,
                                     acc + one.value, Append(surpluses, one.value))

\* DecodedSettlement::total_surplus
total_surplus(settlement, external_prices) ==
    total_surplus_fold(settlement, external_prices, 1, 0, <<>>)

\* The decoded trades total_surplus is called on: token indices that
\* address a token and a price, that are past the end of the prices, and
\* that do not fit in a u64; either kind; any limit amounts.
SurplusTrades ==
    {[flags |-> flags, sell_token_index |-> index[1], buy_token_index |-> index[2],
      sell_amount |-> sell_amount, buy_amount |-> buy_amount,
      executed_amount |-> 1] :
        flags \in 0 .. 1,
        index \in {<<0, 1>>, <<1, 0>>, <<0, 2>>, <<U64_MAX + 1, 1>>},
        sell_amount \in 0 .. MaxAmount, buy_amount \in 0 .. MaxAmount}

\* The tokens, clearing prices and external prices of those settlements: a
\* clearing price of zero, a price without a token, and external prices at
\* which two surpluses exceed U256::MAX.
SurplusSettlements ==
    {[tokens |-> <<"A", "B">>, clearing_prices |-> <<2, 1>>,
      external_prices |-> [t \in {"A", "B"} |-> 1]],
     [tokens |-> <<"A", "B">>, clearing_prices |-> <<1, 0>>,
      external_prices |-> [t \in {"A", "B"} |-> 1]],
     [tokens |-> <<"A">>, clearing_prices |-> <<2, 1>>,
      external_prices |-> [t \in {"A"} |-> 1]],
     [tokens |-> <<"A", "B">>, clearing_prices |-> <<2, 1>>,
      external_prices |-> [t \in {"A", "B"} |-> U256_MAX \div 2 + 1]]}

\* total_surplus is called on a settlement.
TotalSurplusCalled(priced, trades) ==
    [NoTrading EXCEPT
         !.pc = "called", !.op = "total_surplus",
         !.settlement = [tokens |-> priced.tokens,
                         clearing_prices |-> priced.clearing_prices,
                         trades |-> trades],
         !.external_prices = priced.external_prices]

\* total_surplus runs.
TotalSurplus ==
    /\ trading.pc = "called"
    /\ trading.op = "total_surplus"
    /\ trading' = [trading EXCEPT
                       !.pc = "returned",
                       !.out = total_surplus(trading.settlement,
                                             trading.external_prices)]
    /\ OthersUnchanged("trading")

(***************************************************************************)
(* The alerter.                                                            *)
(***************************************************************************)
\* Option<Instant>
NoInstant == [some |-> FALSE, at |-> 0]
SomeInstant(t) == [some |-> TRUE, at |-> t]

\* The orders of the order book: two user orders, a liquidity order and a
\* partially fillable order.
BookOrders ==
    [uid : 1 .. 2, is_liquidity_order : {FALSE}, partially_fillable : {FALSE}]
        \cup {[uid |-> 3, is_liquidity_order |-> TRUE, partially_fillable |-> FALSE],
               [uid |-> 4, is_liquidity_order |-> FALSE, partially_fillable |-> TRUE]}

BookOrder(uid) == CHOOSE order \in BookOrders : order.uid = uid

\* The answers of solvable_orders: the request fails, or the auction holds
\* some of the orders.
AuctionAnswers ==
    {[ok |-> FALSE, orders |-> <<>>]}
        \cup {[ok |-> TRUE, orders |-> [i \in DOMAIN uids |-> BookOrder(uids[i])]] :
                  uids \in {<<>>, <<1>>, <<2>>, <<1, 2>>, <<2, 1>>, <<3, 1>>, <<4, 2>>}}

\* The answers of the order status request, and of the swap-price oracle.
StatusAnswers == {"Fulfilled", "Cancelled", "error"}
OracleAnswers == {"settled", "unsettled", "error"}

\* The configurations of the alerter.
AlertConfigs ==
    {[time_without_trade |-> c[1], min_order_solvable_time |-> c[2],
      min_alert_interval |-> c[3], errors_in_a_row_before_alert |-> 1] :
        c \in {<<1, 0, 1>>, <<1, 0, 3>>, <<2, 1, 1>>, <<1, 1, 3>>}}

\* What the last iteration of the main loop did: its outcome and log level,
\* the closed orders with the status answers, how many of them were looked
\* up, the oracle's answers, when matchable_orders and when update read the
\* clock, whether update returned for a recent trade, and the alert.
NoTick ==
    [outcome |-> "none", level |-> "none", closed |-> <<>>, looked_up |-> 0,
     answers |-> <<>>, matched_at |-> 0, checked_at |-> 0, recent |-> FALSE,
     alerted |-> FALSE, alert |-> 0]

\* The alerter is not running.
NoAlerter ==
    [pc |-> "idle",
     config |-> [time_without_trade |-> 0, min_order_solvable_time |-> 0,
                 min_alert_interval |-> 0, errors_in_a_row_before_alert |-> 0],
     now |-> 0, last_observed_trade |-> 0, last_alert |-> NoInstant,
     open_orders |-> <<>>, errors_in_a_row |-> 0, alerts |-> <<>>, run |-> <<>>,
     tick |-> NoTick]

\* Alerter::new followed by `let mut errors_in_a_row = 0`
AlerterNew(alert_config) ==
    [NoAlerter EXCEPT !.pc = "loop", !.config = alert_config]

\* The index of the first element of seq that satisfies Test, Len(seq) + 1
\* when there is none.
FirstOr(seq, Test(_)) ==
    IF \E i \in DOMAIN seq : Test(seq[i])
    THEN CHOOSE i \in DOMAIN seq : Test(seq[i]) /\ \A j \in 1 .. i - 1 : ~Test(seq[j])
    ELSE Len(seq) + 1

\* The time update_open_orders carries over for an order: that of the open
\* order with the same uid.
existing_time(open_orders, order) ==
    IF \E i \in DOMAIN open_orders : open_orders[i].order.uid = order.uid
    THEN open_orders[FirstOr(open_orders, LAMBDA o : o.order.uid = order.uid)].since
    ELSE NoInstant

\* The orders of the auction that update_open_orders keeps, each with the
\* time carried over.
filtered_orders(open_orders, auction) ==
    [i \in DOMAIN auction |-> [order |-> auction[i],
                                since |-> existing_time(open_orders, auction[i])]]

\* The loop of update_open_orders over the closed orders: their statuses
\* are requested up to the first that is fulfilled or fails.
closed_orders(self, closed, status, t) ==
    LET stop == FirstOr(closed, LAMBDA o : status[o.order.uid] # "Cancelled")
        answered == [i \in DOMAIN closed |->
                        [uid |-> closed[i].order.uid,
                         status |-> status[closed[i].order.uid]]]
    IN  IF stop > Len(closed)
        THEN [ok |-> TRUE, self |-> self, closed |-> answered,
              looked_up |-> Len(closed)]
        ELSE IF answered[stop].status = "error"
        THEN [ok |-> FALSE, self |-> self, closed |-> answered, looked_up |-> stop]
        ELSE [ok |-> TRUE, self |-> [self EXCEPT !.last_observed_trade = t],
              closed |-> answered, looked_up |-> stop]

\* The swap and the retain of update_open_orders.
swap_open_orders(self, orders, status, t) ==
    closed_orders([self EXCEPT !.open_orders = orders],
                  SelectSeq(self.open_orders,
                            LAMBDA o : \A i \in DOMAIN orders :
                                           orders[i].order.uid # o.order.uid),
                  status, t)

\* Alerter::update_open_orders at the time t, with the answer of
\* solvable_orders and a status answer for each uid.
update_open_orders(self, auction, status, t) ==
    IF ~auction.ok
    THEN [ok |-> FALSE, self |-> self, closed |-> <<>>, looked_up |-> 0]
    ELSE swap_open_orders(
             self,
             filtered_orders(
                 self.open_orders,
                 SelectSeq(auction.orders,
                           LAMBDA order :
                               ~order.is_liquidity_order /\ ~order.partially_fillable)),
             status, t)

\* What matchable_orders makes of the time of an open order for the
\* oracle's answer; it does not get to the orders from the stop on.
solvable_since(open, answer, reached, t) ==
    IF ~reached
    THEN open.since
    ELSE IF answer = "unsettled"
    THEN NoInstant
    ELSE IF open.since.some THEN open.since ELSE SomeInstant(t)

\* The loop of matchable_orders, which the first error of the oracle, at
\* the index stop, ends.
matchable_orders_until(self, oracle, stop, t) ==
    [ok |-> stop > Len(self.open_orders),
     self |-> [self EXCEPT
         !.open_orders =
             [i \in DOMAIN self.open_orders |->
                 [order |-> self.open_orders[i].order,
                  since |-> solvable_since(self.open_orders[i],
                                           oracle[self.open_orders[i].order.uid],
                                           i < stop, t)]]],
     result |->
         LET settled == SelectSeq(self.open_orders,
                                  LAMBDA o : oracle[o.order.uid] = "settled")
         IN  [i \in DOMAIN settled |->
                 [order |-> settled[i].order,
                  solvable |-> IF settled[i].since.some
                               THEN t - settled[i].since.at
                               ELSE 0]],
     answers |-> [i \in 1 .. Min(stop, Len(self.open_orders)) |->
                     [uid |-> self.open_orders[i].order.uid,
                      answer |-> oracle[self.open_orders[i].order.uid]]]]

\* Alerter::matchable_orders at the time t, with an answer of the oracle
\* for each uid.
matchable_orders(self, oracle, t) ==
    matchable_orders_until(
        self, oracle,
        FirstOr(self.open_orders, LAMBDA o : oracle[o.order.uid] = "error"), t)

\* should_alert with an interval that the last alert need not respect.
should_alert_always(last_alert, min_alert_interval, t) == TRUE

\* let should_alert = match self.last_alert { .. }
should_alert(last_alert, min_alert_interval, t) ==
    IF last_alert.some THEN t - last_alert.at >= min_alert_interval ELSE TRUE

\* The trade is recent for every time without trade.
recent_trade_never(last_observed_trade, time_without_trade, t) == FALSE

\* self.last_observed_trade.elapsed() <= self.config.time_without_trade
recent_trade(last_observed_trade, time_without_trade, t) ==
    t - last_observed_trade <= time_without_trade

\* An order is solvable long enough whatever the time it has been solvable.
solvable_long_enough_always(solvable, min_order_solvable_time) == TRUE

\* *solvable > self.config.min_order_solvable_time
solvable_long_enough(solvable, min_order_solvable_time) ==
    solvable > min_order_solvable_time

\* The end of update, past the early return for a recent trade: the alert
\* for the first order that has been solvable long enough.
update_alert(self, result, tick, t2) ==
    LET found == FirstOr(result,
                         LAMBDA m : solvable_long_enough(
                             m.solvable, self.config.min_order_solvable_time))
    IN  IF /\ found <= Len(result)
           /\ should_alert(self.last_alert, self.config.min_alert_interval, t2)
        THEN [ok |-> TRUE,
              self |-> [self EXCEPT !.last_alert = SomeInstant(t2),
                                    !.alerts = Append(@, t2)],
              tick |-> [tick EXCEPT !.alerted = TRUE,
                                    !.alert = result[found].order.uid]]
        ELSE [ok |-> TRUE, self |-> self, tick |-> tick]

\* update from the call of matchable_orders on.
update_matched(matched, tick, t2) ==
    IF ~matched.ok
    THEN [ok |-> FALSE, self |-> matched.self, tick |-> tick]
    ELSE IF recent_trade(matched.self.last_observed_trade,
                         matched.self.config.time_without_trade, t2)
    THEN [ok |-> TRUE,
          self |-> [matched.self EXCEPT
              !.open_orders = [i \in DOMAIN matched.self.open_orders |->
                                  [matched.self.open_orders[i] EXCEPT
                                       !.since = NoInstant]]],
          tick |-> [tick EXCEPT !.checked_at = t2, !.recent = TRUE]]
    ELSE update_alert(matched.self, matched.result,
                      [tick EXCEPT !.checked_at = t2], t2)

\* update from the return of update_open_orders on.
update_opened(opened, oracle, t1, t2) ==
    IF ~opened.ok
    THEN [ok |-> FALSE, self |-> opened.self,
          tick |-> [NoTick EXCEPT !.closed = opened.closed,
                                  !.looked_up = opened.looked_up]]
    ELSE update_matched(
             matchable_orders(opened.self, oracle, t1),
             [NoTick EXCEPT
                  !.closed = opened.closed, !.looked_up = opened.looked_up,
                  !.answers = matchable_orders(opened.self, oracle, t1).answers,
                  !.matched_at = t1],
             t2)

\* Alerter::update: update_open_orders and matchable_orders read the clock
\* at t1, the rest of update at t2.
update(self, auction, status, oracle, t1, t2) ==
    update_opened(update_open_orders(self, auction, status, t1), oracle, t1, t2)

\* The arm of the main loop's match taken for the outcome of update.
match_arm(ok, errors_in_a_row, errors_in_a_row_before_alert) ==
    IF ok
    THEN [errors_in_a_row |-> 0, level |-> "none"]
    ELSE IF errors_in_a_row < errors_in_a_row_before_alert
    THEN [errors_in_a_row |-> errors_in_a_row + 1, level |-> "warn"]
    ELSE [errors_in_a_row |-> 0, level |-> "error"]

\* The match of the main loop on the result of update, and the sleep.
match_update(updated, arm, now) ==
    [updated.self EXCEPT
         !.now = now,
         !.errors_in_a_row = arm.errors_in_a_row,
         !.run = IF updated.ok THEN <<>> ELSE Append(@, arm.level),
         !.tick = [updated.tick EXCEPT
                       !.outcome = IF updated.ok THEN "ok" ELSE "failed",
                       !.level = arm.level]]

\* One iteration of the main loop: update, the match on its outcome and the
\* sleep.  The requests of update take the time to t1, the rest to t2; the
\* status is answered for the orders that closed, the oracle answers for the
\* orders that are open.
Loop ==
    /\ alerter.pc = "loop"
    /\ \E slept \in 1 .. MaxSleep, elapsed \in 0 .. 1, auction \in AuctionAnswers :
         /\ alerter.now + slept + elapsed <= MaxTime
         /\ \E status \in [IF auction.ok
                             THEN {alerter.open_orders[i].order.uid :
                                       i \in DOMAIN alerter.open_orders}
                                      \ {auction.orders[i].uid :
                                             i \in DOMAIN auction.orders}
                             ELSE {}
                                -> StatusAnswers],
                oracle \in [{auction.orders[i].uid : i \in DOMAIN auction.orders}
                                \cap 1 .. 2 -> OracleAnswers] :
                alerter' =
                    match_update(
                        update(alerter, auction, status, oracle, alerter.now + slept,
                               alerter.now + slept + elapsed),
                        match_arm(
                            update(alerter, auction, status, oracle, alerter.now + slept,
                                   alerter.now + slept + elapsed).ok,
                            alerter.errors_in_a_row,
                            alerter.config.errors_in_a_row_before_alert),
                        alerter.now + slept + elapsed)
    /\ OthersUnchanged("alerter")

(***************************************************************************)
(* The bad token detector that traces calls.                               *)
(***************************************************************************)
\* TokenQuality and DetectError, and the results made of them: Ok for Good
\* and Bad, Err for BalanceChanged and Other.
Good == [kind |-> "Good", reason |-> ""]
Bad(reason) == [kind |-> "Bad", reason |-> reason]
BalanceChanged == [kind |-> "BalanceChanged", reason |-> ""]
Other(error) == [kind |-> "Other", reason |-> error]
NoQuality == [kind |-> "none", reason |-> ""]

\* A BlockTrace: the output, a U256 when it is 32 bytes long, and the
\* transaction traces, which are not set, empty, or start with a trace that
\* has an error, a call result or neither.
BlockTrace(output, trace) == [output |-> output, trace |-> trace]

TraceKinds == {"not set", "empty", "error", "call", "no call"}

\* fn decode_u256: None stands for the error.
decode_u256(trace) == trace.output

\* fn ensure_transaction_ok_and_get_gas: the outer error is a failed
\* communication with the node, the inner one a failed transaction.
ensure_transaction_ok_and_get_gas(trace) ==
    CASE trace.trace = "not set" -> [ok |-> FALSE, failed |-> FALSE, error |-> "trace not set"]
      [] trace.trace = "empty" ->
             [ok |-> FALSE, failed |-> FALSE, error |-> "expected at least one trace"]
      [] trace.trace = "error" -> [ok |-> TRUE, failed |-> TRUE, error |-> ""]
      [] trace.trace = "call" -> [ok |-> TRUE, failed |-> FALSE, error |-> ""]
      [] OTHER ->
             [ok |-> FALSE, failed |-> FALSE, error |-> "no error but also no call result"]

\* An addition that wraps around instead of reporting the overflow.
wrapping_add(a, b) == SomeU256((a + b) % (U256_MAX + 1))

\* U256::checked_add
checked_add(a, b) == IF a + b <= U256_MAX THEN SomeU256(a + b) ELSE NoU256

\* fn handle_response; traces[i] of the code is traces[i + 1] here.
handle_response(traces, amount) ==
    LET owner == decode_u256(traces[1])
        transfer_in == ensure_transaction_ok_and_get_gas(traces[3])
        transfer_out == ensure_transaction_ok_and_get_gas(traces[6])
        balance_before_in == decode_u256(traces[2])
        balance_after_in == decode_u256(traces[4])
        balance_after_out == decode_u256(traces[7])
        balance_recipient_before == decode_u256(traces[5])
        balance_recipient_after == decode_u256(traces[8])
        computed_balance_after_in == checked_add(balance_before_in.value, amount)
        computed_balance_recipient_after ==
            checked_add(balance_recipient_before.value, amount)
        approve == ensure_transaction_ok_and_get_gas(traces[9])
    IN  IF Len(traces) # 9 THEN Other("unexpected number of traces")
        ELSE IF owner.some /\ owner.value < amount THEN BalanceChanged
        ELSE IF ~owner.some THEN Bad("can't decode initial token owner balance")
        ELSE IF ~transfer_in.ok THEN Other(transfer_in.error)
        ELSE IF transfer_in.failed THEN Bad("can't transfer into settlement contract")
        ELSE IF ~transfer_out.ok THEN Other(transfer_out.error)
        ELSE IF transfer_out.failed THEN Bad("can't transfer out of settlement contract")
        ELSE IF ~balance_before_in.some THEN Bad("can't decode initial settlement balance")
        ELSE IF ~balance_after_in.some THEN Bad("can't decode middle settlement balance")
        ELSE IF ~balance_after_out.some THEN Bad("can't decode final settlement balance")
        ELSE IF ~balance_recipient_before.some
        THEN Bad("can't decode recipient balance before")
        ELSE IF ~balance_recipient_after.some
        THEN Bad("can't decode recipient balance after")
        ELSE IF ~computed_balance_after_in.some
        THEN Bad("token total supply does not fit a uint256")
        ELSE IF balance_after_in # computed_balance_after_in
        THEN Bad("balance after in transfer does not match")
        ELSE IF balance_after_out # balance_before_in
        THEN Bad("balance after out transfer does not match")
        ELSE IF ~computed_balance_recipient_after.some
        THEN Bad("token total supply does not fit a uint256")
        ELSE IF computed_balance_recipient_after # balance_recipient_after
        THEN Bad("balance of recipient does not match")
        ELSE IF ~approve.ok THEN Other(approve.error)
        ELSE IF approve.failed THEN Bad("can't approve max amount")
        ELSE Good

\* The traces of create_trace_request's nine calls, from the outputs of the
\* six balance calls and the transaction traces of the two transfers and of
\* the approval.
Traces(owner, before_in, tx_in, after_in, recipient_before, tx_out, after_out, recipient_after, approve) ==
    <<BlockTrace(owner, "call"), BlockTrace(before_in, "call"),
      BlockTrace(NoU256, tx_in), BlockTrace(after_in, "call"),
      BlockTrace(recipient_before, "call"), BlockTrace(NoU256, tx_out),
      BlockTrace(after_out, "call"), BlockTrace(recipient_after, "call"),
      BlockTrace(NoU256, approve)>>

\* The amount the owner that find_owner returns holds.
ProbeAmount == 1

\* The outputs of the balance calls: not 32 bytes, or a balance.
BalanceOutputs == {NoU256} \cup {SomeU256(n) : n \in {0, ProbeAmount, U256_MAX}}

\* What trace_many returns for the probe.
ProbeTraces ==
    {Traces(owner, before_in, tx_in, after_in, recipient_before, tx_out, after_out,
            recipient_after, approve) :
        owner \in {NoU256, SomeU256(0), SomeU256(ProbeAmount)},
        before_in \in BalanceOutputs, tx_in \in TraceKinds, after_in \in BalanceOutputs,
        recipient_before \in BalanceOutputs, tx_out \in TraceKinds,
        after_out \in {NoU256, SomeU256(0), SomeU256(U256_MAX)},
        recipient_after \in {NoU256, SomeU256(ProbeAmount), SomeU256(0)},
        approve \in {"call", "error", "not set"}}

\* The traces of a probe that finds the token good.
GoodTraces ==
    Traces(SomeU256(ProbeAmount), SomeU256(0), "call", SomeU256(ProbeAmount),
           SomeU256(0), "call", SomeU256(0), SomeU256(ProbeAmount), "call")

\* What trace_many returns for the attempts of detect: the owner's balance
\* is undecodable, too low or as found, the settlement contract holds
\* nothing or the most, the transfer in succeeds, fails or has no trace, the
\* token takes a fee or none, the approval succeeds or fails; or one trace
\* is missing.
AttemptTraces ==
    {Traces(owner, before_in, tx_in, after_in, SomeU256(0), "call", before_in,
            SomeU256(ProbeAmount), approve) :
        owner \in {NoU256, SomeU256(0), SomeU256(ProbeAmount)},
        before_in \in {SomeU256(0), SomeU256(U256_MAX)},
        tx_in \in {"call", "error", "not set"},
        after_in \in {SomeU256(ProbeAmount), SomeU256(0)},
        approve \in {"call", "error"}}
        \cup {SubSeq(GoodTraces, 1, 8)}

\* const MAX_RETRIES
MAX_RETRIES == 3

\* No call of detect or of handle_response.
NoDetection ==
    [pc |-> "idle", op |-> "none", amount |-> 0, traces |-> <<>>, log |-> <<>>,
     result |-> NoQuality]

\* detect is called for a token.
DetectCalled == [NoDetection EXCEPT !.pc = "called", !.op = "detect"]

\* handle_response is called on the traces of a probe.
HandleResponseCalled(traces, amount) ==
    [NoDetection EXCEPT
         !.pc = "called", !.op = "handle_response", !.traces = traces,
         !.amount = amount]

\* detect_impl, with the answers of find_owner and of trace_many.
detect_impl(owner, traced) ==
    IF ~owner.ok THEN Other("find_owner")
    ELSE IF ~owner.found THEN Bad("no pool")
    ELSE IF ~traced.ok THEN Other("failed to trace for bad token detection")
    ELSE handle_response(traced.traces, owner.amount)

\* The answers of find_owner and of trace_many.
OwnerAnswers ==
    {[ok |-> FALSE, found |-> FALSE, amount |-> 0],
     [ok |-> TRUE, found |-> FALSE, amount |-> 0],
     [ok |-> TRUE, found |-> TRUE, amount |-> ProbeAmount]}

TraceAnswers ==
    {[ok |-> FALSE, traces |-> <<>>]}
        \cup {[ok |-> TRUE, traces |-> traces] : traces \in AttemptTraces}

\* The loop of detect_with_retries goes on for every error of detect_impl.
retries_on_every_error(outcome) == outcome.kind \in {"BalanceChanged", "Other"}

\* Err(DetectError::BalanceChanged) => continue
retries(outcome) == outcome.kind = "BalanceChanged"

\* One iteration of the loop of detect_with_retries.
DetectAttempt ==
    /\ detector.pc = "called"
    /\ detector.op = "detect"
    /\ Len(detector.log) < MAX_RETRIES
    /\ \E owner \in OwnerAnswers, traced \in TraceAnswers :
         LET outcome == detect_impl(owner, traced)
         IN  detector' =
                 [detector EXCEPT
                      !.amount = owner.amount,
                      !.traces = IF owner.found THEN traced.traces ELSE <<>>,
                      !.log = Append(@, outcome),
                      !.pc = IF retries(outcome) THEN "called" ELSE "returned",
                      !.result = IF retries(outcome) THEN NoQuality ELSE outcome]
    /\ OthersUnchanged("detector")

\* The loop of detect_with_retries is over: Err(BalanceChanged).
DetectExhausted ==
    /\ detector.pc = "called"
    /\ detector.op = "detect"
    /\ Len(detector.log) >= MAX_RETRIES
    /\ detector' = [detector EXCEPT !.pc = "returned", !.result = BalanceChanged]
    /\ OthersUnchanged("detector")

\* handle_response runs.
HandleResponse ==
    /\ detector.pc = "called"
    /\ detector.op = "handle_response"
    /\ detector' = [detector EXCEPT
                        !.pc = "returned",
                        !.result = handle_response(detector.traces, detector.amount)]
    /\ OthersUnchanged("detector")

(***************************************************************************)
(* The clearing prices of a solution.                                      *)
(***************************************************************************)
\* eth::ETH_TOKEN, the address of the WETH contract and another token.
ETH_TOKEN == "ETH"
WethAddress == "WETH"
SolutionTokens == {ETH_TOKEN, WethAddress, "A"}

\* The trades of a solution: fulfillments of market, limit and liquidity
\* orders and just-in-time orders, each selling one token for another.
SolutionTrades ==
    {[fulfillment |-> k[1], kind |-> k[2], sell |-> pair[1], buy |-> pair[2]] :
        k \in {<<TRUE, "Market">>, <<TRUE, "Limit">>, <<TRUE, "Liquidity">>,
                <<FALSE, "Jit">>},
        pair \in {<<"A", ETH_TOKEN>>, <<"A", WethAddress>>, <<WethAddress, "A">>,
                   <<WethAddress, ETH_TOKEN>>}}

\* ClearingPrices: a price for some of the tokens.
ClearingPrices ==
    UNION {[tokens -> 1 .. MaxPrice] : tokens \in SUBSET SolutionTokens}

\* Every trade taken for a user trade.
user_trades_all(trades) == trades

\* Solution::user_trades
user_trades(trades) ==
    SelectSeq(trades,
              LAMBDA trade : trade.fulfillment /\ trade.kind \in {"Market", "Limit"})

\* Order::buys_eth
buys_eth(order) == order.buy = ETH_TOKEN

\* The result of Solution::prices.
PricesOk(assets) == [ok |-> TRUE, prices |-> assets, error |-> ""]
PricesErr(error) == [ok |-> FALSE, prices |-> <<>>, error |-> error]

\* Solution::prices, the map of the clearing prices iterated in the order
\* `iteration`.
prices(self, iteration) ==
    LET assets == [i \in DOMAIN iteration |->
                      [token |-> iteration[i], amount |-> self.prices[iteration[i]]]]
        user == user_trades(self.trades)
    IN  IF \E i \in DOMAIN user : buys_eth(user[i])
        THEN LET kept ==
                     IF \A i \in DOMAIN user :
                            user[i].sell # self.weth /\ user[i].buy # self.weth
                     THEN SelectSeq(assets, LAMBDA price : price.token # self.weth)
                     ELSE assets
             IN  IF self.weth \in DOMAIN self.prices
                 THEN PricesOk(Append(kept, [token |-> ETH_TOKEN,
                                             amount |-> self.prices[self.weth]]))
                 ELSE PricesErr("MissingWethClearingPrice")
        ELSE PricesOk(assets)

\* No call of Solution::prices.
NoSolution ==
    [pc |-> "idle", trades |-> <<>>, prices |-> <<>>, weth |-> WethAddress,
     result |-> PricesErr("")]

\* Solution::prices is called on a solution.
PricesCalled(trades, clearing_prices) ==
    [NoSolution EXCEPT !.pc = "called", !.trades = trades, !.prices = clearing_prices]

\* Solution::prices runs; the HashMap of the prices is iterated in any
\* order.
Prices ==
    /\ solution.pc = "called"
    /\ \E iteration \in Orders(DOMAIN solution.prices) :
         solution' = [solution EXCEPT
                          !.pc = "returned",
                          !.result = prices(solution, iteration)]
    /\ OthersUnchanged("solution")

(***************************************************************************)
(* The time limit of the solver.                                           *)
(***************************************************************************)
\* Option<SolverTimeout>
NoSolverTimeout == [some |-> FALSE, duration |-> 0]
SolverTimeout(duration) == [some |-> TRUE, duration |-> duration]

\* chrono::Duration::to_std().map(Self).ok(): a std Duration cannot be
\* negative.
to_std(duration) ==
    IF duration < 0 THEN NoSolverTimeout ELSE SolverTimeout(duration)

\* SolverTimeout::new
solver_timeout_new(deadline, buffer, now) == to_std(deadline - now - buffer)

\* No call of SolverTimeout::new.
NoTimeout ==
    [pc |-> "idle", deadline |-> 0, buffer |-> 0, now |-> 0,
     result |-> NoSolverTimeout]

\* SolverTimeout::new is called.
TimeoutCalled(deadline, buffer, now) ==
    [NoTimeout EXCEPT !.pc = "called", !.deadline = deadline, !.buffer = buffer,
                      !.now = now]

\* SolverTimeout::new runs.
SolverTimeoutNew ==
    /\ timeout.pc = "called"
    /\ timeout' = [timeout EXCEPT
                       !.pc = "returned",
                       !.result = solver_timeout_new(timeout.deadline, timeout.buffer,
                                                     timeout.now)]
    /\ OthersUnchanged("timeout")

(***************************************************************************)
(* The order events of the database.                                       *)
(***************************************************************************)
\* The events store_order_events is given: (uid, label) pairs.
OrderEvents == [uid : 1 .. 2, label : {"Created", "Ready"}]

\* The rows of the events with the timestamp.
EventRows(events, timestamp) ==
    [i \in DOMAIN events |->
        [order_uid |-> events[i].uid, timestamp |-> timestamp,
         label |-> events[i].label]]

\* No call of store_order_events, and an empty table.
NoDatabase ==
    [pc |-> "idle", now |-> 0, rows |-> <<>>, before |-> <<>>, events |-> <<>>,
     timestamp |-> 0, transaction |-> <<>>, inserted |-> 0, error |-> "",
     warned |-> FALSE]

\* Postgres::store_order_events is called at the time now: Utc::now() is
\* read and the inner store_order_events is entered.
StoreCalled(rows, events, now) ==
    [NoDatabase EXCEPT !.pc = "begin", !.now = now, !.rows = rows,
                       !.before = rows, !.events = events, !.timestamp = now]

\* The inner store_order_events returns an error: the transaction is
\* dropped, which rolls it back, and the outer function logs the error and
\* returns.
StoreFailed(db, error, now) ==
    [db EXCEPT !.pc = "returned", !.now = now, !.transaction = <<>>,
               !.error = error, !.warned = TRUE]

\* The insert with the time of the insert for a timestamp.
insert_row_now(db, now) ==
    [order_uid |-> db.events[db.inserted + 1].uid, timestamp |-> now,
     label |-> db.events[db.inserted + 1].label]

\* The OrderEvent that the loop of store_order_events inserts next.
insert_row(db, now) ==
    [order_uid |-> db.events[db.inserted + 1].uid, timestamp |-> db.timestamp,
     label |-> db.events[db.inserted + 1].label]

\* db.0.begin(): the transaction begins, or the request fails.
StoreBegin ==
    /\ database.pc = "begin"
    /\ \E ok \in BOOLEAN, passed \in 0 .. 1 :
         /\ database.now + passed <= MaxClock
         /\ database' =
                IF ok
                THEN [database EXCEPT !.pc = "insert", !.now = @ + passed]
                ELSE StoreFailed(database, "begin transaction", database.now + passed)
    /\ OthersUnchanged("database")

\* One insert_order_event of the loop, which succeeds or fails.
StoreInsert ==
    /\ database.pc = "insert"
    /\ database.inserted < Len(database.events)
    /\ \E ok \in BOOLEAN, passed \in 0 .. 1 :
         /\ database.now + passed <= MaxClock
         /\ database' =
                IF ok
                THEN [database EXCEPT
                          !.now = @ + passed,
                          !.transaction =
                              Append(@, insert_row(database, database.now + passed)),
                          !.inserted = @ + 1]
                ELSE StoreFailed(database, "insert", database.now + passed)
    /\ OthersUnchanged("database")

\* ex.commit(): the rows of the transaction are in the table, or the commit
\* fails and none is.
StoreCommit ==
    /\ database.pc = "insert"
    /\ database.inserted = Len(database.events)
    /\ \E ok \in BOOLEAN :
         database' =
             IF ok
             THEN [database EXCEPT !.pc = "returned",
                                   !.rows = @ \o database.transaction,
                                   !.transaction = <<>>]
             ELSE StoreFailed(database, "commit", database.now)
    /\ OthersUnchanged("database")

(***************************************************************************)
(* The specification.                                                      *)
(***************************************************************************)
\* The cache as it is built by default, with no caller.
CacheUnused ==
    /\ config = DefaultConfig
    /\ block_stream = 0
    /\ mutexed = MutexedNew(block_stream)
    /\ futures = {}
    /\ task = [t \in Tasks |-> Idle]
    /\ ncalls = 0
    /\ last = NoEvent

\* Every component but one is built and not called.
OthersUnused(component) ==
    /\ IF component \in {"cache", "cache_and_retrying"} THEN TRUE ELSE CacheUnused
    /\ IF component = "rating" THEN TRUE ELSE rating = NoRatingCall
    /\ IF component = "scoring" THEN TRUE ELSE scoring = NoScoring
    /\ IF component = "codec" THEN TRUE ELSE codec = NoDecoding
    /\ IF component = "trading" THEN TRUE ELSE trading = NoTrading
    /\ IF component = "alerter" THEN TRUE ELSE alerter = NoAlerter
    /\ IF component = "detector" THEN TRUE ELSE detector = NoDetection
    /\ IF component = "solution" THEN TRUE ELSE solution = NoSolution
    /\ IF component = "timeout" THEN TRUE ELSE timeout = NoTimeout
    /\ IF component = "database" THEN TRUE ELSE database = NoDatabase
    /\ IF component \in {"retrying", "cache_and_retrying"} THEN TRUE ELSE retrying = NoRetrying

\* RecentBlockCache::new at any block of the stream.
Init ==
    /\ config \in Configs
    /\ block_stream = 0
    /\ mutexed = MutexedNew(block_stream)
    /\ futures = {}
    /\ task = [t \in Tasks |-> Idle]
    /\ ncalls = 0
    /\ last = NoEvent
    /\ OthersUnused("cache")

\* The steps of the callers `tasks`, which ask for keys of K at Recent and
\* at the blocks B, see the stream advance to blocks of B, and start at most
\* maxcalls calls.
Step(tasks, K, B, maxcalls) ==
    \/ /\ ncalls < maxcalls
       /\ \E t \in tasks, keys \in KeySeqs(K), b \in B :
            FetchStart(t, keys, Number(b))
       /\ OthersUnchanged("cache")
    \/ /\ ncalls < maxcalls
       /\ \E t \in tasks, keys \in KeySeqs(K) : FetchStart(t, keys, Recent)
       /\ OthersUnchanged("cache")
    \/ /\ ncalls < maxcalls
       /\ \E t \in tasks, b \in B : UpdateStart(t, b)
       /\ OthersUnchanged("cache")
    \/ /\ \E t \in tasks : FetchChunk(t)
       /\ OthersUnchanged("cache")
    \/ /\ \E t \in tasks : UpdateFinish(t)
       /\ OthersUnchanged("cache")
    \/ /\ \E f \in futures : \E answers \in AnswerSeqs(f.key) : FutureCompletes(f, answers)
       /\ OthersUnchanged("cache")

\* Two callers whose calls overlap in every way, on two keys.
Next == Step(Tasks, {0, 1}, Blocks, MaxCalls)

Spec == Init /\ [][Next]_vars

\* One caller, whose calls follow one another, on two keys.
NextSeq == Step({1}, {0, 1}, Blocks, MaxSeqCalls)

SpecSeq == Init /\ [][NextSeq]_vars

\* One caller on all three keys, while the stream stays at its first block.
NextLru == Step({1}, Keys, {0}, MaxSeqCalls)

SpecLru == Init /\ [][NextLru]_vars

\* The cache once a first fetch of key 0 at the block of construction has
\* returned the value the fetcher found for it.
WarmCache == insert_chunk(MutexedNew(0), 0, {0}, <<Value(0, "a")>>)

InitWarm ==
    /\ config \in Configs
    /\ block_stream = 0
    /\ mutexed = WarmCache
    /\ futures = {}
    /\ task = [t \in Tasks |-> Idle]
    /\ ncalls = 0
    /\ last = NoEvent
    /\ OthersUnused("cache")

\* Two callers whose calls overlap in every way, on a cache in use.
SpecWarm == InitWarm /\ [][Next]_vars

\* One shared future of a cache built with any number of retries and any
\* delay between them.  The fetcher answers every call and a sleep ends, so
\* the future is polled until it resolves.
InitRetry ==
    /\ \E r \in 0 .. MaxRetries : config = [TestConfig EXCEPT !.max_retries = r]
    /\ block_stream = 0
    /\ mutexed = MutexedNew(block_stream)
    /\ futures = {}
    /\ task = [t \in Tasks |-> Idle]
    /\ ncalls = 0
    /\ last = NoEvent
    /\ \E k \in Keys, d \in 0 .. MaxDelay :
         retrying = [NoRetrying EXCEPT !.key = k, !.delay = d]
    /\ OthersUnused("cache_and_retrying")

NextRetry ==
    \/ FutureStarts
    \/ \E answer \in FetcherAnswers(retrying.key) : FetchValuesAnswers(answer)
    \/ SleepOver

SpecRetry == InitRetry /\ [][NextRetry]_vars /\ WF_vars(NextRetry)

\* rate_settlement is called with any settlement, objective value and gas
\* price, against a node with any answers.
InitRater ==
    /\ OthersUnused("rating")
    /\ \E settlement \in Settlements, objective_value \in RatedObjectives,
          gas_price \in GasPrices, u \in SimAnswers, i \in SimAnswers,
          b \in BalanceAnswers :
         rating = RatingCalled(settlement, objective_value, gas_price,
                               [uninternalized |-> u, internalized |-> i, balance |-> b])

NextRater ==
    \/ SimulateStart
    \/ SimulateFinish
    \/ BalanceFinish

SpecRater == InitRater /\ [][NextRater]_vars

\* compute_score_with_success_probability is called with any objective
\* value and any success probability.
InitScore ==
    /\ OthersUnused("scoring")
    /\ \E objective_value \in ObjectiveValues, success_probability \in SuccessProbabilities :
         scoring = ScoringCalled(objective_value, success_probability)

NextScore == ComputeScore

SpecScore == InitScore /\ [][NextScore]_vars

\* DecodedSettlement::new is called with the call data of any settlement,
\* with any bytes appended, under the selector of settle or another.
InitCodec ==
    /\ OthersUnused("codec")
    /\ \E settlement \in DecodableSettlements, padded \in BOOLEAN,
          prefix \in Selectors, appended \in Appended :
         codec = DecodingCalled(settlement, padded, prefix, appended)

NextCodec ==
    \/ DecodeWithMetadata
    \/ DecodeWithoutMetadata

SpecCodec == InitCodec /\ [][NextCodec]_vars

\* trade_surplus is called for an order of either kind with any limit
\* amounts, executed amount and clearing prices.
InitSurplus ==
    /\ OthersUnused("trading")
    /\ \E kind \in {Sell, Buy}, sell_amount \in Amounts, buy_amount \in Amounts,
          executed_amount \in Amounts, sell_token_price \in Amounts,
          buy_token_price \in Amounts :
         trading = SurplusCalled(kind, sell_amount, buy_amount, executed_amount,
                                 sell_token_price, buy_token_price)

NextSurplus == TradeSurplus

SpecSurplus == InitSurplus /\ [][NextSurplus]_vars

\* total_fees or order_executions is called on a settlement of up to
\* MaxTrades trades with up to MaxExecutions executions of orders.
InitFees ==
    /\ OthersUnused("trading")
    /\ \E op \in {"total_fees", "order_executions"}, priced \in PricedSettlements,
          trades \in SeqsUpTo(DecodedTrades, MaxTrades),
          executions \in SeqsUpTo(Executions, MaxExecutions) :
         trading = FeesCalled(op, priced, trades, Supplied(executions))

NextFees ==
    \/ TotalFees
    \/ OrderExecutions

SpecFees == InitFees /\ [][NextFees]_vars

\* total_surplus is called on a settlement of up to MaxTrades trades.
InitTotalSurplus ==
    /\ OthersUnused("trading")
    /\ \E priced \in SurplusSettlements, trades \in SeqsUpTo(SurplusTrades, MaxTrades) :
         trading = TotalSurplusCalled(priced, trades)

NextTotalSurplus == TotalSurplus

SpecTotalSurplus == InitTotalSurplus /\ [][NextTotalSurplus]_vars

\* The alerter is started with one of the configurations.
InitAlerter ==
    /\ OthersUnused("alerter")
    /\ \E alert_config \in AlertConfigs : alerter = AlerterNew(alert_config)

NextAlerter == Loop

SpecAlerter == InitAlerter /\ [][NextAlerter]_vars

\* Solution::prices is called on a solution of up to MaxSolutionTrades
\* trades.
InitPrices ==
    /\ OthersUnused("solution")
    /\ \E trades \in SeqsUpTo(SolutionTrades, MaxSolutionTrades),
          clearing_prices \in ClearingPrices :
         solution = PricesCalled(trades, clearing_prices)

NextPrices == Prices

SpecPrices == InitPrices /\ [][NextPrices]_vars

\* SolverTimeout::new is called with a deadline before or after now and a
\* buffer that may be negative.
InitTimeout ==
    /\ OthersUnused("timeout")
    /\ \E deadline \in 0 .. MaxDeadline, buffer \in -1 .. MaxBuffer,
          now \in 0 .. MaxDeadline :
         timeout = TimeoutCalled(deadline, buffer, now)

NextTimeout == SolverTimeoutNew

SpecTimeout == InitTimeout /\ [][NextTimeout]_vars

\* store_order_events is called with a batch of up to MaxEvents events on
\* a table that is empty or holds a row.
InitEvents ==
    /\ OthersUnused("database")
    /\ \E events \in SeqsUpTo(OrderEvents, MaxEvents), now \in 1 .. 2,
          rows \in {<<>>, EventRows(<<[uid |-> 1, label |-> "Created"]>>, 0)} :
         database = StoreCalled(rows, events, now)

NextEvents ==
    \/ StoreBegin
    \/ StoreInsert
    \/ StoreCommit

SpecEvents == InitEvents /\ [][NextEvents]_vars

\* detect is called.
InitDetector ==
    /\ OthersUnused("detector")
    /\ detector = DetectCalled

NextDetector ==
    \/ DetectAttempt
    \/ DetectExhausted

\* The node and the owner finder answer every request.
SpecDetector == InitDetector /\ [][NextDetector]_vars /\ WF_vars(NextDetector)

\* handle_response is called on the traces of a probe, or on too few.
InitProbe ==
    /\ OthersUnused("detector")
    /\ \E traces \in ProbeTraces \cup {SubSeq(GoodTraces, 1, 8)} :
         detector = HandleResponseCalled(traces, ProbeAmount)

NextProbe == HandleResponse

SpecProbe == InitProbe /\ [][NextProbe]_vars

(***************************************************************************)
(* The properties of RecentBlockCache.                                     *)
(***************************************************************************)
\* The values of the key k among values, in their order.
ValuesOf(values, k) == SelectSeq(values, LAMBDA v : for_value(v) = k)

\* The last step began a fetch that follows at once a fetch of the same keys
\* at the same Number(n) which returned Ok and ran alongside no write of
\* another caller.
C1_Repeated ==
    /\ last.what \in {"started", "returned"}
    /\ last.first
    /\ last.op = "fetch"
    /\ last.block.tag = "Number"
    /\ last.follows.op = "fetch"
    /\ last.follows.block = last.block
    /\ Range(last.follows.keys) = Range(last.keys)
    /\ Len(last.follows.keys) = Len(last.keys)
    /\ last.follows.result.ok
    /\ ~last.follows.disturbed

\* C1: a fetch of keys at Number(n) that follows a fetch of the same keys at
\* Number(n) which returned Ok, with no update_cache and no write of another
\* caller in between, misses no key, so it awaits no fetcher and returns in
\* its first step, and it returns the same values as the first fetch.
C1_RepeatedFetchHits ==
    C1_Repeated =>
        /\ last.what = "returned"
        /\ last.missed = {}
        /\ last.result.ok
        /\ BagOf(last.result.values) = BagOf(last.follows.result.values)

\* The second of two such fetches has returned, where the first one missed
\* keys, got values for one and none for another.
C1_Witness ==
    /\ C1_Repeated
    /\ last.what = "returned"
    /\ \E k \in last.follows.missed : ValuesOf(last.result.values, k) # <<>>
    /\ \E k \in last.follows.missed : ValuesOf(last.result.values, k) = <<>>

\* C2: a fetch that returns after the shared future of one of its keys gave
\* up, every attempt 0..=max_retries having failed, returns an error.
C2_ExhaustedRetriesReturnErr ==
    (last.what = "returned" /\ last.op = "fetch" /\ last.failed # {})
        => ~last.result.ok

\* C3: the step in which a fetch or an update_cache returns after the fetcher
\* failed for one of its keys leaves the cache as it was: no entry is
\* recorded for the key, empty or not.
C3_FailureLeavesCache ==
    [][\A t \in Tasks :
          (/\ task[t].pc \in {"fetching", "updating"}
           /\ task'[t].pc = "idle"
           /\ last'.task = t
           /\ last'.failed # {})
              => mutexed' = mutexed]_vars

\* C4: once update_cache_at_block(n) has returned, the cache holds no entry
\* of a block below n - number_of_blocks_to_cache + 1 (0 when that is
\* negative), the index of most recently cached blocks holds no key below
\* that bound, and every entry the call removed was below the bound: the
\* entries at or above it are kept.
C4_EvictionBound ==
    (last.what = "returned" /\ last.op = "update" /\ last.result.ok) =>
        LET bound ==
                IF last.number + 1 >= config.number_of_blocks_to_cache
                THEN last.number + 1 - config.number_of_blocks_to_cache
                ELSE 0
        IN  /\ \A p \in DOMAIN mutexed.entries : p[1] >= bound
            /\ \A k \in DOMAIN mutexed.cached_most_recently_at_block :
                 mutexed.cached_most_recently_at_block[k] >= bound
            /\ \A p \in last.dropped : p[1] < bound

\* An update has returned that removed an entry and kept an entry of a block
\* before its own.
C4_Witness ==
    /\ last.what = "returned"
    /\ last.op = "update"
    /\ last.dropped # {}
    /\ \E p \in DOMAIN mutexed.entries : p[1] < last.number

\* C5: no step lowers last_update_block, overlapping updates included.
C5_LastUpdateBlockMonotone ==
    [][mutexed'.last_update_block >= mutexed.last_update_block]_vars

C7_LookedUpAt(k) ==
    IF last.block.tag = "Number"
    THEN {last.block.number}
    ELSE {b \in Blocks :
            /\ k \in DOMAIN mutexed.cached_most_recently_at_block
            /\ mutexed.cached_most_recently_at_block[k] = b
            /\ mutexed.last_update_block - b <= config.maximum_recent_block_age}

C8_RecentEnough(k) ==
    /\ k \in DOMAIN mutexed.cached_most_recently_at_block
    /\ mutexed.last_update_block - mutexed.cached_most_recently_at_block[k]
           <= config.maximum_recent_block_age

\* C8: a fetch at Recent that has just partitioned its keys has a hit for
\* exactly the keys with a recent enough most recently cached block, with the
\* values cached at that block, and awaits every other key at
\* Number(last_update_block).
C8_RecentHitOrMiss ==
    (/\ last.what \in {"started", "returned"}
     /\ last.op = "fetch"
     /\ last.first
     /\ last.block.tag = "Recent") =>
        /\ \A k \in Range(last.keys) :
             /\ k \notin last.missed <=> C8_RecentEnough(k)
             /\ C8_RecentEnough(k) =>
                  /\ <<mutexed.cached_most_recently_at_block[k], k>>
                         \in DOMAIN mutexed.entries
                  /\ ValuesOf(last.result.values, k) =
                         mutexed.entries[<<mutexed.cached_most_recently_at_block[k], k>>]
        /\ last.missed # {} =>
             /\ last.what = "started"
             /\ last.number = mutexed.last_update_block
             /\ task[last.task].number = mutexed.last_update_block
             /\ DOMAIN task[last.task].got = last.missed
             /\ \A k \in last.missed :
                  InFlight(futures, k, mutexed.last_update_block) # {}

\* A fetch at Recent has begun with a hit that has values and with a miss of
\* a key that is cached at a block too old, to be fetched at a
\* last_update_block that is not the first block.
C8_Witness ==
    /\ last.what = "started"
    /\ last.op = "fetch"
    /\ last.block.tag = "Recent"
    /\ last.result.values # <<>>
    /\ \E k \in last.missed : k \in DOMAIN mutexed.cached_most_recently_at_block
    /\ last.number = mutexed.last_update_block
    /\ mutexed.last_update_block > 0

\* C9: the recently used set never holds more than
\* number_of_entries_to_auto_update keys, an update never refreshes more keys
\* than that, a step that adds a key to the full set drops the last key of
\* its order unless the step itself uses that key, and with room for two
\* keys the fetches of key 0, of key 1 and of the keys 1 and 2 leave exactly
\* the keys 1 and 2 in the set.
C9_BoundedRecentlyUsed ==
    [][/\ Len(mutexed'.recently_used) <= config.number_of_entries_to_auto_update
       /\ Cardinality(Range(mutexed'.recently_used)) = Len(mutexed'.recently_used)
       /\ \A t \in Tasks :
            task'[t].pc = "updating" =>
                Cardinality(DOMAIN task'[t].got) <= config.number_of_entries_to_auto_update
       /\ (/\ Len(mutexed.recently_used) = config.number_of_entries_to_auto_update
           /\ Range(mutexed'.recently_used) \ Range(mutexed.recently_used) # {}
           /\ mutexed.recently_used[Len(mutexed.recently_used)] \notin Range(last'.keys))
              => mutexed.recently_used[Len(mutexed.recently_used)]
                     \notin Range(mutexed'.recently_used)
       /\ (/\ config.number_of_entries_to_auto_update = 2
           /\ Range(mutexed.recently_used) = {0, 1}
           /\ last'.what = "returned"
           /\ last'.op = "fetch"
           /\ last'.keys = <<1, 2>>
           /\ ValuesOf(last'.result.values, 1) # <<>>
           /\ ValuesOf(last'.result.values, 2) # <<>>)
              => Range(mutexed'.recently_used) = {1, 2}]_vars

\* With room for two keys, the fetch of the keys 1 and 2 has returned values
\* for both, the set holds the keys 1 and 2, and key 0, which had been
\* fetched before, is still cached with its values.
C9_Witness ==
    /\ config.number_of_entries_to_auto_update = 2
    /\ last.what = "returned"
    /\ last.op = "fetch"
    /\ last.keys = <<1, 2>>
    /\ last.added = {2}
    /\ Range(mutexed.recently_used) = {1, 2}
    /\ \E b \in Blocks :
         /\ <<b, 0>> \in DOMAIN mutexed.entries
         /\ mutexed.entries[<<b, 0>>] # <<>>

RatedBalance == IF rating.node.balance.ok THEN rating.node.balance.value ELSE 0

\* gas_limit_for_estimate(gas estimate of the internalized simulation) times
\* max_fee_per_gas, at most U256::MAX.
RequiredBalance ==
    LET max_fee == IF rating.gas_price.max_fee_per_gas.class = "finite"
                   THEN rating.gas_price.max_fee_per_gas.rat.num
                            \div rating.gas_price.max_fee_per_gas.rat.den
                   ELSE U256_MAX
        product == gas_limit_for_estimate(rating.node.internalized.gas) * max_fee
    IN  IF product > U256_MAX THEN U256_MAX ELSE product

\* C11: rate_settlement returns Rating::Ok only if the node let the
\* simulation with all interactions encoded and the simulation that skips
\* internalizable interactions succeed, both were run, and the balance of the
\* solver is at least gas_limit * max_fee_per_gas; and a call whose
\* uninternalized simulation reverts returns Rating::Err for that simulation
\* whatever the node would answer to the internalized one.
C11_OkOnlyIfBothSimulationsAndBalance ==
    /\ rating.result.kind = "Rating::Ok" =>
         /\ rating.node.uninternalized.kind = "estimate"
         /\ rating.node.internalized.kind = "estimate"
         /\ <<"done", EncodeAllInteractions>> \in Range(rating.log)
         /\ <<"done", SkipInternalizableInteraction>> \in Range(rating.log)
         /\ RatedBalance >= RequiredBalance
    /\ (rating.pc = "returned" /\ rating.node.uninternalized.kind = "revert") =>
         /\ rating.result.kind = "Rating::Err"
         /\ rating.result.internalization = EncodeAllInteractions
         /\ rating.result.error = Revert

\* A call has returned Rating::Err for its uninternalized simulation while
\* the node would have let the internalized simulation succeed and the
\* balance suffice.
C11_Witness ==
    /\ rating.pc = "returned"
    /\ rating.result.kind = "Rating::Err"
    /\ rating.node.uninternalized.kind = "revert"
    /\ rating.node.internalized.kind = "estimate"
    /\ RatedBalance >= RequiredBalance

\* C12: the internalized simulation starts only after the uninternalized one
\* is done, and when the uninternalized simulation does not succeed neither
\* the internalized simulation nor the balance request is ever started.
C12_UninternalizedFirst ==
    /\ \A i \in DOMAIN rating.log :
         rating.log[i] = <<"start", SkipInternalizableInteraction>> =>
             \E j \in 1 .. i - 1 : rating.log[j] = <<"done", EncodeAllInteractions>>
    /\ rating.node.uninternalized.kind # "estimate" =>
         /\ <<"start", SkipInternalizableInteraction>> \notin Range(rating.log)
         /\ <<"start", "balance">> \notin Range(rating.log)

\* A call has returned after both simulations and the balance request, each
\* started when the one before was done.
C12_Witness ==
    /\ rating.pc = "returned"
    /\ rating.log = << <<"start", EncodeAllInteractions>>,
                       <<"done", EncodeAllInteractions>>,
                       <<"start", SkipInternalizableInteraction>>,
                       <<"done", SkipInternalizableInteraction>>,
                       <<"start", "balance">>,
                       <<"done", "balance">> >>

\* C13: a call that returns after both simulations succeeded, with a balance
\* of the solver below gas_limit_for_estimate(gas_estimate) * max_fee_per_gas,
\* returns Rating::Err with InsufficientBalance, needs the required balance
\* and has the balance, which is 0 when the balance request failed.
C13_InsufficientBalance ==
    (/\ rating.pc = "returned"
     /\ rating.node.uninternalized.kind = "estimate"
     /\ rating.node.internalized.kind = "estimate"
     /\ RatedBalance < RequiredBalance) =>
        /\ rating.result.kind = "Rating::Err"
        /\ rating.result.error = InsufficientBalance(RequiredBalance, RatedBalance)

\* A call has returned InsufficientBalance with has = 0 after the balance
\* request failed.
C13_Witness ==
    /\ rating.pc = "returned"
    /\ rating.result.error.tag = "InsufficientBalance"
    /\ ~rating.node.balance.ok
    /\ rating.result.error.has = 0
    /\ rating.result.error.needs > 1

\* C14: rate_settlement never panics, and whatever it returns is a Rating:
\* Rating::Ok or Rating::Err.
C14_EveryFailureIsRatingErr ==
    /\ rating.pc # "panicked"
    /\ rating.pc = "returned" => rating.result.kind \in {"Rating::Ok", "Rating::Err"}

\* C15 as stated: compute_score_with_success_probability returns an error if
\* and only if the success probability is outside [0, 1].
C15_ErrIffOutsideUnitInterval ==
    scoring.pc = "returned" =>
        (~scoring.out.ok <=>
            ~(/\ scoring.success_probability.class = "finite"
              /\ scoring.success_probability.rat.num >= 0
              /\ scoring.success_probability.rat.num <= scoring.success_probability.rat.den))

\* C15: compute_score_with_success_probability returns an error whenever the
\* success probability is outside [0, 1] and whenever compute_optimal_bid
\* rejects the bid, and a score it returns is Score::Protocol, for a success
\* probability in [0, 1] and a bid that compute_optimal_bid accepts.
C15_ErrIfOutsideOrInvalidBid ==
    scoring.pc = "returned" =>
        LET inside == /\ scoring.success_probability.class = "finite"
                      /\ scoring.success_probability.rat.num >= 0
                      /\ scoring.success_probability.rat.num
                             <= scoring.success_probability.rat.den
        IN  /\ ~inside => ~scoring.out.ok
            /\ (inside /\ ~scoring.bid.ok) => ~scoring.out.ok
            /\ scoring.out.ok =>
                 /\ inside
                 /\ scoring.bid.ok
                 /\ scoring.out.value.tag = "Protocol"

\* The score has been refused for a success probability of 0 and an
\* objective value of 1, and for no other reason than the bid being invalid.
C15_Witness ==
    /\ scoring.pc = "returned"
    /\ scoring.success_probability = Finite(RatZero)
    /\ scoring.objective_value = RatOne
    /\ ~scoring.out.ok
    /\ scoring.out.error = "Invalid bid"

\* payoff(x) = p * min(V - x, 1/2) - (1 - p) * min(x, 1/2) for the objective
\* value V and the success probability p of the call.
C16_Payoff(x) ==
    LET V == scoring.objective_value
        p == scoring.success_probability.rat
        half == Rat(1, 2)
    IN  RatSub(RatMul(p, RatMin(RatSub(V, x), half)),
               RatMul(RatSub(RatOne, p), RatMin(x, half)))

\* C16: for a success probability p in [0, 1], failure cost 0 and cap 1/2,
\* compute_optimal_bid returns p * V when payoff(V - 1/2) >= 0 and
\* payoff(1/2) <= 0, V - (1 - p) / p * 1/2 when payoff(V - 1/2) >= 0 and
\* payoff(1/2) > 0, p / (1 - p) * 1/2 when payoff(V - 1/2) < 0 and
\* payoff(1/2) > 0, and 'Invalid bid' in every other case; it divides by
\* zero in none.
C16_OptimalBid ==
    (scoring.pc = "returned" /\ in_unit_interval(scoring.success_probability)) =>
        LET V == scoring.objective_value
            p == scoring.success_probability.rat
            half == Rat(1, 2)
            high == C16_Payoff(RatSub(V, half))
            low == C16_Payoff(half)
        IN  /\ scoring.bid.value.den # 0
            /\ (RatLe(RatZero, high) /\ RatLe(low, RatZero)) =>
                 scoring.bid = BidOk(RatMul(p, V))
            /\ (RatLe(RatZero, high) /\ RatLt(RatZero, low)) =>
                 scoring.bid = BidOk(RatSub(V, RatMul(RatDiv(RatSub(RatOne, p), p), half)))
            /\ (RatLt(high, RatZero) /\ RatLt(RatZero, low)) =>
                 scoring.bid = BidOk(RatMul(RatDiv(p, RatSub(RatOne, p)), half))
            /\ (RatLt(high, RatZero) /\ RatLe(low, RatZero)) =>
                 scoring.bid = BidErr("Invalid bid")

\* The bid has been computed for V = 2 and p = 3/4 by the second formula:
\* 2 - (1/4) / (3/4) * 1/2 = 11/6.
C16_Witness ==
    /\ scoring.pc = "returned"
    /\ scoring.objective_value = Rat(2, 1)
    /\ scoring.success_probability = Finite(Rat(3, 4))
    /\ RatLt(RatZero, C16_Payoff(Rat(1, 2)))
    /\ scoring.bid = BidOk(Rat(11, 6))

\* The objective value of the call as a U256: its integer part, 0 when it is
\* negative or does not fit.
C17_Objective ==
    IF rating.objective_value.num < 0
           \/ rating.objective_value.num \div rating.objective_value.den > U256_MAX
    THEN 0
    ELSE rating.objective_value.num \div rating.objective_value.den

\* The base score of the call: the score of the solver, the objective value
\* less the discount of the solver and at least 0, or the objective value.
C17_BaseScore ==
    IF rating.settlement.score.some
    THEN IF rating.settlement.score.tag = "Solver"
         THEN Solver(rating.settlement.score.value)
         ELSE Discounted(IF C17_Objective >= rating.settlement.score.value
                         THEN C17_Objective - rating.settlement.score.value
                         ELSE 0)
    ELSE Protocol(C17_Objective)

\* C17: the score of a settlement rated Ok without a success probability is
\* Solver(s) for the score s of the solver, Discounted(max(objective - d, 0))
\* for the discount d of the solver, and Protocol(objective) otherwise, the
\* objective value taken as 0 when it is negative or does not fit a U256.
C17_ScoreWithoutProbability ==
    (rating.result.kind = "Rating::Ok" /\ ~rating.settlement.success_probability.some) =>
        rating.result.score = C17_BaseScore

\* A settlement with a discount larger than its objective value has been
\* rated Discounted(0).
C17_Witness ==
    /\ rating.result.kind = "Rating::Ok"
    /\ ~rating.settlement.success_probability.some
    /\ rating.settlement.score.tag = "Discount"
    /\ rating.settlement.score.some
    /\ C17_Objective < rating.settlement.score.value
    /\ rating.result.score = Discounted(0)

FieldsOf(decoded) ==
    <<decoded.tokens, decoded.clearing_prices, decoded.trades, decoded.interactions>>

\* C19: decoding the ABI encoding of a settlement followed by exactly 8
\* bytes yields metadata = Some(those 8 bytes), and tokens, clearing prices,
\* trades and interactions equal to those of decoding the same call data
\* without the 8 bytes, whose metadata is None.
C19_MetadataDecoded ==
    (/\ codec.pc = "returned"
     /\ codec.prefix = selector
     /\ codec.padded
     /\ Len(codec.appended) = 8) =>
        LET original == new(codec.prefix \o codec.arguments)
        IN  /\ codec.result.ok
            /\ codec.result.metadata = SomeBytes(codec.appended)
            /\ original.ok
            /\ original.metadata = NoBytes
            /\ FieldsOf(codec.result) = FieldsOf(original)
            /\ FieldsOf(codec.result) = FieldsOf(codec.settlement)

\* The call data of a settlement with two tokens, trades and interactions,
\* followed by 8 bytes of 42, has been decoded with those bytes as metadata.
C19_Witness ==
    /\ codec.pc = "returned"
    /\ codec.padded
    /\ codec.appended = <<42, 42, 42, 42, 42, 42, 42, 42>>
    /\ codec.result.ok
    /\ codec.result.metadata = SomeBytes(codec.appended)
    /\ Len(codec.result.tokens) = 2
    /\ Len(codec.result.trades) = 33
    /\ codec.result.interactions = <<1, 2, 3>>

\* C20: try_new with metadata is the first that new calls and try_new
\* without metadata the only other; when the bytes after the selector have a
\* length L with L mod 32 # 8, or decoding them with metadata fails, the
\* second is called, and the result has no metadata and the tokens, clearing
\* prices, trades and interactions of decoding the call data without the
\* appended bytes.
C20_FallBackWithoutMetadata ==
    /\ codec.tried \in {<<>>, <<TRUE>>, <<TRUE, FALSE>>}
    /\ (codec.pc = "returned" /\ codec.prefix = selector) =>
         LET data == SubSeq(codec.input, Len(selector) + 1, Len(codec.input))
             original == new(codec.prefix \o codec.arguments)
         IN  IF Len(data) % 32 # 8 \/ ~try_new(data, TRUE).ok
             THEN /\ codec.tried = <<TRUE, FALSE>>
                  /\ codec.result.ok
                  /\ codec.result.metadata = NoBytes
                  /\ original.ok
                  /\ FieldsOf(codec.result) = FieldsOf(original)
             ELSE /\ codec.tried = <<TRUE>>
                  /\ codec.result.ok
                  /\ codec.result.metadata.some

\* Call data followed by a byte and 8 more bytes, 9 in all, has been decoded
\* without metadata by the second try_new.
C20_Witness ==
    /\ codec.pc = "returned"
    /\ codec.padded
    /\ codec.appended = <<100, 42, 42, 42, 42, 42, 42, 42, 42>>
    /\ codec.tried = <<TRUE, FALSE>>
    /\ codec.result.ok
    /\ codec.result.metadata = NoBytes
    /\ Len(codec.result.tokens) = 2

(***************************************************************************)
(* The properties of the surplus and the fees of a decoded settlement.     *)
(***************************************************************************)
\* C21 as stated: trade_surplus returns None when the sell limit amount or
\* the buy limit amount is 0, and Some(0) when the executed amount is 0 and
\* neither limit is.
C21_NoneOnZeroLimit ==
    (trading.pc = "returned" /\ trading.op = "trade_surplus") =>
        /\ (trading.sell_amount.num = 0 \/ trading.buy_amount.num = 0) =>
             ~trading.surplus.some
        /\ (/\ trading.sell_amount.num # 0
            /\ trading.buy_amount.num # 0
            /\ trading.executed_amount.num = 0) => trading.surplus = SomeRat(RatZero)

\* C21: trade_surplus returns None when the limit amount it divides by is 0,
\* the sell limit of a sell order and the buy limit of a buy order.  With
\* only the other limit 0, a sell order has the surplus executed * sell
\* price, and a buy order has None when executed * buy price is positive and
\* Some(0) when it is 0.  With both limits positive and an executed amount
\* of 0 the surplus is Some(0).
C21_NoneOnZeroDivisor ==
    (trading.pc = "returned" /\ trading.op = "trade_surplus") =>
        LET sell == trading.kind = Sell
            divisor == IF sell THEN trading.sell_amount ELSE trading.buy_amount
            other == IF sell THEN trading.buy_amount ELSE trading.sell_amount
            paid == RatMul(trading.executed_amount, trading.buy_token_price)
        IN  /\ divisor.num = 0 => ~trading.surplus.some
            /\ (divisor.num # 0 /\ other.num = 0 /\ sell) =>
                 trading.surplus =
                     SomeRat(RatMul(trading.executed_amount, trading.sell_token_price))
            /\ (divisor.num # 0 /\ other.num = 0 /\ ~sell) =>
                 trading.surplus = IF paid.num > 0 THEN NoRat ELSE SomeRat(RatZero)
            /\ (divisor.num # 0 /\ other.num # 0 /\ trading.executed_amount.num = 0) =>
                 trading.surplus = SomeRat(RatZero)

\* A sell order with a buy limit of 0 has got the surplus 2 * 1.
C21_Witness ==
    /\ trading.pc = "returned"
    /\ trading.op = "trade_surplus"
    /\ trading.kind = Sell
    /\ trading.buy_amount.num = 0
    /\ trading.sell_amount.num = 1
    /\ trading.executed_amount = Rat(2, 1)
    /\ trading.sell_token_price = RatOne
    /\ trading.surplus = SomeRat(Rat(2, 1))

\* The executions still in the list when total_fees or order_executions
\* reaches the trade after the n-th: the supplied ones without those the
\* first n trades used, each removed as swap_remove does.
RECURSIVE C22_Candidates(_)
C22_Candidates(n) ==
    IF n = 0
    THEN trading.orders
    ELSE LET before == C22_Candidates(n - 1)
             used == trading.out.matched[n]
         IN  IF used = 0
             THEN before
             ELSE LET at == CHOOSE i \in DOMAIN before : before[i].supplied = used
                  IN  IF at = Len(before)
                      THEN SubSeq(before, 1, Len(before) - 1)
                      ELSE [SubSeq(before, 1, Len(before) - 1) EXCEPT
                                ![at] = before[Len(before)]]

\* The trade and the execution match as the specification says: equal
\* signatures and, for a partially fillable trade only, equal executed
\* amounts.
C23_Matches(trade, order) ==
    /\ trade.signature = order.signature
    /\ (trade.flags \div 2) % 2 = 1 => trade.executed_amount = order.executed_amount

\* total_fees or order_executions has returned (or panicked).
FeesReturned ==
    /\ trading.pc = "returned"
    /\ trading.op \in {"total_fees", "order_executions"}

\* C22: within one call of total_fees and within one call of
\* order_executions every supplied execution is used for at most one trade;
\* the trades are gone through in order, each one uses the first execution
\* that matches it among those not used by the trades before it, and a used
\* execution is no longer among the candidates of the later trades.
C22_ExecutionUsedAtMostOnce ==
    FeesReturned =>
        LET matched == trading.out.matched
        IN  /\ \A t, u \in DOMAIN matched :
                   t # u /\ matched[t] # 0 => matched[t] # matched[u]
            /\ \A t \in DOMAIN matched :
                   LET candidates == C22_Candidates(t - 1)
                       trade == trading.settlement.trades[t]
                   IN  /\ \A u \in 1 .. t - 1 :
                              matched[u] # 0 =>
                                  \A i \in DOMAIN candidates :
                                      candidates[i].supplied # matched[u]
                       /\ IF matched[t] = 0
                          THEN \A i \in DOMAIN candidates :
                                   ~C23_Matches(trade, candidates[i])
                          ELSE \E i \in DOMAIN candidates :
                                   /\ candidates[i].supplied = matched[t]
                                   /\ C23_Matches(trade, candidates[i])
                                   /\ \A j \in 1 .. i - 1 :
                                          ~C23_Matches(trade, candidates[j])

\* Two trades with the same signature and executed amount and two executions
\* that match both, behind a third trade-less one that swap_remove moves:
\* each trade has used an execution of its own.
C22_Witness ==
    /\ FeesReturned
    /\ Len(trading.settlement.trades) = 2
    /\ trading.settlement.trades[1] = trading.settlement.trades[2]
    /\ Len(trading.orders) = 3
    /\ \A i \in 1 .. 3 : C23_Matches(trading.settlement.trades[1], trading.orders[i])
    /\ trading.out.matched = <<1, 3>>

\* The total_fees outcome for the settlement with the executed amount of
\* its t-th trade replaced.
C23_TotalWith(t, amount) ==
    LET out == total_fees(
                   [trading.settlement EXCEPT !.trades[t].executed_amount = amount],
                   trading.external_prices, trading.orders)
    IN  <<out.panicked, out.total>>

\* C23: a trade uses an execution iff one with the same signature and, only
\* when the trade is partially fillable, the same executed amount is among
\* the candidates, and the one it uses is such a one; and for a fill-or-kill
\* trade whose execution carries a stored executed_solver_fee, total_fees is
\* the same for every executed amount of the trade.
C23_MatchBySignatureAndAmount ==
    FeesReturned =>
        LET matched == trading.out.matched
            trades == trading.settlement.trades
        IN  /\ \A t \in DOMAIN matched :
                   /\ matched[t] # 0 <=>
                          \E i \in DOMAIN C22_Candidates(t - 1) :
                              C23_Matches(trades[t], C22_Candidates(t - 1)[i])
                   /\ matched[t] # 0 =>
                          C23_Matches(trades[t], trading.orders[matched[t]])
            /\ trading.op = "total_fees" =>
                   \A t \in DOMAIN matched :
                       (/\ matched[t] # 0
                        /\ (trades[t].flags \div 2) % 2 = 0
                        /\ trading.orders[matched[t]].executed_solver_fee.some)
                           => \A amount \in 0 .. MaxAmount :
                                  C23_TotalWith(t, amount)
                                      = <<trading.out.panicked, trading.out.total>>

\* total_fees has summed the stored fee of an execution for a fill-or-kill
\* trade whose executed amount differs from the execution's.
C23_Witness ==
    /\ FeesReturned
    /\ trading.op = "total_fees"
    /\ Len(trading.settlement.trades) = 1
    /\ trading.settlement.trades[1].flags = 0
    /\ Len(trading.orders) = 1
    /\ trading.orders[1].executed_solver_fee.some
    /\ trading.orders[1].executed_amount # trading.settlement.trades[1].executed_amount
    /\ trading.out.matched = <<1>>
    /\ trading.out.total > 0

(***************************************************************************)
(* The properties of the alerter.                                          *)
(***************************************************************************)
\* C24: after a successful update at which the time since the last observed
\* trade is at most time_without_trade, no open order has a matchable-since
\* time and no alert was raised in that iteration, whatever the oracle
\* answered.
C24_RecentTradeClearsMatchable ==
    (/\ alerter.tick.outcome = "ok"
     /\ alerter.tick.checked_at - alerter.last_observed_trade
            <= alerter.config.time_without_trade)
        => /\ \A i \in DOMAIN alerter.open_orders :
                  ~alerter.open_orders[i].since.some
           /\ ~alerter.tick.alerted

\* A successful update with a recent trade in which the oracle reported an
\* open order as matchable.
C24_Witness ==
    /\ alerter.tick.outcome = "ok"
    /\ alerter.tick.checked_at - alerter.last_observed_trade
           <= alerter.config.time_without_trade
    /\ alerter.last_observed_trade > 0
    /\ \E i \in DOMAIN alerter.tick.answers : alerter.tick.answers[i].answer = "settled"
    /\ alerter.open_orders # <<>>

\* C25: an alert is raised in an iteration only if the last observed trade
\* is longer ago than time_without_trade and the alert is for an order that
\* is open, is neither a liquidity nor a partially fillable order, was
\* reported matchable by the oracle in this iteration and has been matchable
\* for strictly longer than min_order_solvable_time.
C25_AlertOnlyForLongMatchable ==
    alerter.tick.alerted =>
        /\ alerter.tick.checked_at - alerter.last_observed_trade
               > alerter.config.time_without_trade
        /\ \E i \in DOMAIN alerter.open_orders :
               LET open == alerter.open_orders[i]
               IN  /\ open.order.uid = alerter.tick.alert
                   /\ ~open.order.is_liquidity_order
                   /\ ~open.order.partially_fillable
                   /\ \E k \in DOMAIN alerter.tick.answers :
                          /\ alerter.tick.answers[k].uid = open.order.uid
                          /\ alerter.tick.answers[k].answer = "settled"
                   /\ open.since.some
                   /\ alerter.tick.matched_at - open.since.at
                          > alerter.config.min_order_solvable_time

\* An alert was raised for the second open order while the first one was
\* matchable too, but not for long enough.
C25_Witness ==
    /\ alerter.tick.alerted
    /\ Len(alerter.open_orders) = 2
    /\ alerter.tick.alert = alerter.open_orders[2].order.uid
    /\ alerter.open_orders[1].since.some

\* C26: any two alerts are at least min_alert_interval apart, the last
\* alert time is the time of the last alert raised, and it changes only in an
\* iteration that raises an alert.
C26_AlertsApart ==
    /\ [](/\ \A i, j \in DOMAIN alerter.alerts :
                i < j => alerter.alerts[j] - alerter.alerts[i]
                             >= alerter.config.min_alert_interval
           /\ alerter.last_alert =
                  IF alerter.alerts = <<>>
                  THEN NoInstant
                  ELSE SomeInstant(alerter.alerts[Len(alerter.alerts)]))
    /\ [][alerter'.last_alert # alerter.last_alert => alerter'.tick.alerted]_vars

\* A second alert was raised exactly min_alert_interval after the first,
\* with an interval that is longer than the time between two updates.
C26_Witness ==
    /\ Len(alerter.alerts) = 2
    /\ alerter.config.min_alert_interval > MaxSleep
    /\ alerter.alerts[2] - alerter.alerts[1] = alerter.config.min_alert_interval
    /\ alerter.tick.alerted

\* C27: in a run of consecutive failed updates the first
\* errors_in_a_row_before_alert failures are logged at warn level and every
\* later failure of the run at error level.
C27_WarnThenError ==
    \A i \in DOMAIN alerter.run :
        alerter.run[i] =
            IF i <= alerter.config.errors_in_a_row_before_alert
            THEN "warn"
            ELSE "error"

(***************************************************************************)
(* The properties of the bad token detector.                               *)
(***************************************************************************)
\* C28: detect runs the probe at most 3 times; every probe but the last one
\* reported BalanceChanged; a Good or Bad verdict or another error ends the
\* call at once and is what the call returns; after 3 BalanceChanged
\* outcomes the call returns the BalanceChanged error; and the call always
\* returns.
C28_AtMostThreeProbes ==
    /\ [](detector.op = "detect" =>
             /\ Len(detector.log) <= 3
             /\ \A i \in 1 .. Len(detector.log) - 1 :
                    detector.log[i].kind = "BalanceChanged"
             /\ \A i \in DOMAIN detector.log :
                    detector.log[i].kind # "BalanceChanged" =>
                        /\ detector.pc = "returned"
                        /\ detector.result = detector.log[i]
             /\ detector.pc = "returned" =>
                    \/ /\ detector.log # <<>>
                       /\ detector.result = detector.log[Len(detector.log)]
                       /\ detector.result.kind \in {"Good", "Bad", "Other"}
                    \/ /\ Len(detector.log) = 3
                       /\ \A i \in 1 .. 3 : detector.log[i].kind = "BalanceChanged"
                       /\ detector.result.kind = "BalanceChanged")
    /\ <>(detector.pc = "returned")

\* detect has returned the BalanceChanged error after three probes.
C28_Witness ==
    /\ detector.op = "detect"
    /\ detector.pc = "returned"
    /\ Len(detector.log) = 3
    /\ detector.result.kind = "BalanceChanged"

\* handle_response was given nine traces with decodable balances, the
\* owner's balance being at least the amount.
C29_Given ==
    /\ detector.op = "handle_response"
    /\ detector.pc = "returned"
    /\ Len(detector.traces) = 9
    /\ \A i \in {1, 2, 4, 5, 7, 8} : detector.traces[i].output.some
    /\ detector.traces[1].output.value >= detector.amount

\* The transfer or approval of the i-th trace succeeded.
C29_Succeeded(i) == detector.traces[i].trace = "call"

\* The five conditions of acceptance.
C29_Accepted ==
    LET before_in == detector.traces[2].output.value
        after_in == detector.traces[4].output.value
        recipient_before == detector.traces[5].output.value
        after_out == detector.traces[7].output.value
        recipient_after == detector.traces[8].output.value
    IN  /\ C29_Succeeded(3) /\ C29_Succeeded(6)
        /\ before_in + detector.amount <= U256_MAX
        /\ after_in = before_in + detector.amount
        /\ after_out = before_in
        /\ recipient_before + detector.amount <= U256_MAX
        /\ recipient_after = recipient_before + detector.amount
        /\ C29_Succeeded(9)

\* The reason of a Bad verdict names a check that failed.
C29_ReasonNamesFailedCheck ==
    LET reason == detector.result.reason
        before_in == detector.traces[2].output.value
        after_in == detector.traces[4].output.value
        recipient_before == detector.traces[5].output.value
        after_out == detector.traces[7].output.value
        recipient_after == detector.traces[8].output.value
    IN  CASE reason = "can't transfer into settlement contract" ->
                 detector.traces[3].trace = "error"
          [] reason = "can't transfer out of settlement contract" ->
                 detector.traces[6].trace = "error"
          [] reason = "token total supply does not fit a uint256" ->
                 \/ before_in + detector.amount > U256_MAX
                 \/ recipient_before + detector.amount > U256_MAX
          [] reason = "balance after in transfer does not match" ->
                 after_in # before_in + detector.amount
          [] reason = "balance after out transfer does not match" ->
                 after_out # before_in
          [] reason = "balance of recipient does not match" ->
                 recipient_after # recipient_before + detector.amount
          [] reason = "can't approve max amount" ->
                 detector.traces[9].trace = "error"
          [] OTHER -> FALSE

C29_WellFormed ==
    \A i \in {3, 6, 9} : detector.traces[i].trace \in {"call", "error"}

C30_UserTradeBuysEth ==
    \E i \in DOMAIN solution.trades :
        /\ solution.trades[i].fulfillment
        /\ solution.trades[i].kind \in {"Market", "Limit"}
        /\ solution.trades[i].buy = ETH_TOKEN

\* C30: when a user trade buys ETH, Solution::prices returns a list with an
\* entry for the ETH token whose amount is the WETH clearing price, or fails
\* with MissingWethClearingPrice when the solution has no WETH price; when
\* no user trade buys ETH, the list is exactly the clearing prices of the
\* solution, one entry for each, with no ETH entry added.
C30_EthPriceIsWethPrice ==
    solution.pc = "returned" =>
        LET result == solution.result
        IN  IF C30_UserTradeBuysEth
            THEN IF solution.weth \in DOMAIN solution.prices
                 THEN /\ result.ok
                      /\ \E i \in DOMAIN result.prices :
                             /\ result.prices[i].token = ETH_TOKEN
                             /\ result.prices[i].amount = solution.prices[solution.weth]
                 ELSE ~result.ok /\ result.error = "MissingWethClearingPrice"
            ELSE /\ result.ok
                 /\ Len(result.prices) = Cardinality(DOMAIN solution.prices)
                 /\ Range(result.prices) =
                        {[token |-> token, amount |-> solution.prices[token]] :
                            token \in DOMAIN solution.prices}

\* A user trade buys ETH for A and a liquidity order buys ETH for WETH:
\* the list holds the price of A and, last, that of WETH as the price of ETH,
\* and no entry for WETH.
C30_Witness ==
    /\ solution.pc = "returned"
    /\ C30_UserTradeBuysEth
    /\ \E i \in DOMAIN solution.trades : solution.trades[i].kind = "Liquidity"
    /\ DOMAIN solution.prices = {WethAddress, "A"}
    /\ solution.prices[WethAddress] # solution.prices["A"]
    /\ solution.result =
           PricesOk(<<[token |-> "A", amount |-> solution.prices["A"]],
                      [token |-> ETH_TOKEN, amount |-> solution.prices[WethAddress]]>>)

(***************************************************************************)
(* The properties of the time limit of the solver.                         *)
(***************************************************************************)
\* C31: SolverTimeout::new yields the time limit deadline - now - buffer,
\* and no time limit whenever that duration is zero or negative.
C31_NoLimitWhenNotPositive ==
    timeout.pc = "returned" =>
        LET duration == timeout.deadline - timeout.now - timeout.buffer
        IN  timeout.result =
                IF duration <= 0 THEN NoSolverTimeout ELSE SolverTimeout(duration)

(***************************************************************************)
(* The properties of the order events.                                     *)
(***************************************************************************)
\* C32: when store_order_events has returned, the table holds, after the
\* rows it held before, either a row for every event of the batch, all with
\* the one timestamp read at the call, or no row of the batch; an error of
\* begin, of an insert or of the commit has been logged and the call has
\* returned all the same, with none of the rows in the table.
C32_AllOrNothing ==
    database.pc = "returned" =>
        /\ \/ database.rows = database.before
           \/ database.rows
                  = database.before \o EventRows(database.events, database.timestamp)
        /\ database.transaction = <<>>
        /\ database.error # "" <=> database.warned
        /\ database.error # "" => database.rows = database.before
        /\ database.error = "" =>
               database.rows
                   = database.before \o EventRows(database.events, database.timestamp)

\* The second insert of a batch of two has failed after time has passed:
\* the first row is not in the table.
C32_Witness ==
    /\ database.pc = "returned"
    /\ database.error = "insert"
    /\ database.inserted = 1
    /\ Len(database.events) = 2
    /\ database.now > database.timestamp
    /\ database.rows = database.before

C34_Failed == {j \in DOMAIN retrying.answers : ~retrying.answers[j].ok}

\* The fetcher is called at most max_retries + 1 times and never after an
\* answer that is Ok; every failed attempt is followed by one sleep of
\* delay_between_retries, so the time slept is the delay times the failed
\* attempts whose sleep is over; the future resolves to the values of the
\* first Ok answer, and to None only once max_retries + 1 attempts failed,
\* which is what the loop taken in one step yields.
C34_Attempts ==
    /\ Len(retrying.answers) <= config.max_retries + 1
    /\ \A j \in DOMAIN retrying.answers :
          retrying.answers[j].ok => j = Len(retrying.answers)
    /\ retrying.slept =
          retrying.delay
              * (Cardinality(C34_Failed) - (IF retrying.pc = "sleeping" THEN 1 ELSE 0))
    /\ retrying.pc = "done" =>
          /\ IF retrying.out.some
             THEN /\ retrying.answers # <<>>
                  /\ retrying.answers[Len(retrying.answers)].ok
                  /\ retrying.out.values
                         = retrying.answers[Len(retrying.answers)].values
             ELSE /\ Len(retrying.answers) = config.max_retries + 1
                  /\ C34_Failed = DOMAIN retrying.answers
          /\ \A answers \in AnswerSeqs(retrying.key) :
                (\A j \in DOMAIN retrying.answers : answers[j] = retrying.answers[j])
                    => retry_loop(answers, 0) = retrying.out

\* C34: one shared fetch of a key calls the fetcher at most max_retries + 1
\* times, sleeps delay_between_retries after each failed attempt, stops at
\* the first success and resolves to its values, resolves to a failure only
\* after every attempt failed, and always resolves.
C34_BoundedRetriesAndTermination ==
    [](C34_Attempts) /\ <>(retrying.pc = "done")

\* A future with two retries has resolved to the value of its third attempt
\* after two failed ones, each followed by a sleep of the delay.
C34_Witness ==
    /\ retrying.pc = "done"
    /\ config.max_retries = 2
    /\ retrying.delay = 2
    /\ Len(retrying.answers) = 3
    /\ retrying.out.some
    /\ retrying.out.values # <<>>
    /\ retrying.slept = 4

\* The step in which update_cache_at_block(n) returns leaves, for every key
\* that was in the recently used set when the update started, an entry at
\* block n with the values its request resolved to at block n (none when
\* the request gave up), and last_update_block = n.
C35_UpdateStoresFetched ==
    \A t \in Tasks :
        (task[t].pc = "updating" /\ task'[t].pc = "idle") =>
            /\ DOMAIN task[t].got = task[t].missed
            /\ \A k \in task[t].missed :
                  /\ <<task[t].number, k>> \in DOMAIN mutexed'.entries
                  /\ mutexed'.entries[<<task[t].number, k>>]
                         = task[t].got[k].out.values
            /\ mutexed'.last_update_block = task[t].number

\* The last step began a fetch at Recent that follows at once an
\* update_cache_at_block and asks for keys that update refreshed.
C35_FetchFollowsUpdate ==
    /\ last.what \in {"started", "returned"}
    /\ last.first
    /\ last.op = "fetch"
    /\ last.block = Recent
    /\ last.follows.op = "update"
    /\ last.follows.result.ok
    /\ Range(last.keys) \subseteq last.follows.missed

\* Such a fetch returns in its first step, with no request to the fetcher,
\* the values the update stored at its block n.
C35_ReturnsUpdated ==
    /\ last.what = "returned"
    /\ last.missed = {}
    /\ last.result.ok
    /\ \A k \in Range(last.keys) :
          /\ <<last.follows.block.number, k>> \in DOMAIN mutexed.entries
          /\ ValuesOf(last.result.values, k)
                 = mutexed.entries[<<last.follows.block.number, k>>]

\* C35 as stated: after update_cache_at_block(n) every key recently used at
\* its start has an entry at n with the values fetched at n and
\* last_update_block = n, and any fetch of such keys at Recent that follows
\* returns those values without a request to the fetcher.
C35_RecentReturnsUpdated ==
    /\ [][C35_UpdateStoresFetched]_vars
    /\ [](C35_FetchFollowsUpdate => C35_ReturnsUpdated)

\* C35: the same, for the keys of the following fetch that are cached at no
\* block above n: a key cached at a higher block is read at that block.
C35_RecentReturnsUpdatedUnlessCachedHigher ==
    /\ [][C35_UpdateStoresFetched]_vars
    /\ []((/\ C35_FetchFollowsUpdate
           /\ \A k \in Range(last.keys) :
                 mutexed.cached_most_recently_at_block[k]
                     = last.follows.block.number)
              => C35_ReturnsUpdated)

\* A fetch at Recent has followed an update at a block above 0 and returned
\* a value that update fetched, for a key cached before at a lower block.
C35_Witness ==
    /\ C35_FetchFollowsUpdate
    /\ last.what = "returned"
    /\ last.follows.block.number > 0
    /\ last.result.values # <<>>
    /\ \A k \in Range(last.keys) :
          mutexed.cached_most_recently_at_block[k] = last.follows.block.number

\* The step returns the fetch of t, which cached the key k at a block below
\* the one k was cached at most recently.
C36_CachedLower(t, k) ==
    /\ task[t].pc = "fetching"
    /\ task'[t].pc = "idle"
    /\ k \in DOMAIN task[t].got
    /\ k \in DOMAIN mutexed.cached_most_recently_at_block
    /\ task[t].number < mutexed.cached_most_recently_at_block[k]

\* C36: a fetch at Number(b') that caches a key below its most recently
\* cached block b leaves what a read of the key at Recent finds as it was,
\* leaves the entry at b as it was and readable through Number(b), and
\* makes the key readable through Number(b'); and no step lowers the most
\* recently cached block of a key: it rises, or the key is dropped from the
\* index by the eviction of a returning update_cache_at_block.
C36_LowerBlockKeepsRecent ==
    [][/\ \A k \in DOMAIN mutexed.cached_most_recently_at_block :
            IF k \in DOMAIN mutexed'.cached_most_recently_at_block
            THEN mutexed'.cached_most_recently_at_block[k]
                     >= mutexed.cached_most_recently_at_block[k]
            ELSE /\ last'.op = "update"
                 /\ last'.what = "returned"
                 /\ <<mutexed.cached_most_recently_at_block[k], k>> \in last'.dropped
       /\ \A t \in Tasks, k \in Keys :
            C36_CachedLower(t, k) =>
                /\ get(mutexed', k, NoBlock).result = get(mutexed, k, NoBlock).result
                /\ get(mutexed', k, SomeBlock(mutexed.cached_most_recently_at_block[k])).result
                       = get(mutexed, k, SomeBlock(mutexed.cached_most_recently_at_block[k])).result
                /\ get(mutexed', k, SomeBlock(mutexed.cached_most_recently_at_block[k])).result.some
                /\ get(mutexed', k, SomeBlock(task[t].number)).result.some]_vars

\* A fetch at Number(b') has returned and cached a key below the block it
\* is read at through Recent, where the two entries of the key differ.
C36_Witness ==
    /\ last.what = "returned"
    /\ last.op = "fetch"
    /\ last.block.tag = "Number"
    /\ \E k \in last.missed :
          /\ k \in DOMAIN mutexed.cached_most_recently_at_block
          /\ mutexed.cached_most_recently_at_block[k] > last.number
          /\ get(mutexed, k, NoBlock).result.some
          /\ get(mutexed, k, NoBlock).result # get(mutexed, k, SomeBlock(last.number)).result
          /\ get(mutexed, k, SomeBlock(last.number)).result.some

\* C40: in every state of the cache, whatever the interleaving of fetch and
\* update_cache_at_block, every key with a most recently cached block b has
\* an entry at (b, key) and no entry at a block above b, and every key with
\* an entry is in the index; so a read at Recent of a key whose block
\* passes the age check finds an entry.
C40_IndexPointsAtNewestEntry ==
    /\ \A k \in DOMAIN mutexed.cached_most_recently_at_block :
          /\ <<mutexed.cached_most_recently_at_block[k], k>> \in DOMAIN mutexed.entries
          /\ \A p \in DOMAIN mutexed.entries :
                p[2] = k => p[1] <= mutexed.cached_most_recently_at_block[k]
    /\ \A p \in DOMAIN mutexed.entries :
          p[2] \in DOMAIN mutexed.cached_most_recently_at_block
    /\ \A k \in Keys :
          get_block(mutexed, k, NoBlock).some => get(mutexed, k, NoBlock).result.some

\* While a fetch of another caller awaits the fetcher, an update has
\* returned that evicted entries, and a key it refreshed is read at Recent
\* at the block of the update.
C40_Witness ==
    /\ \E t \in Tasks : task[t].pc = "fetching"
    /\ last.what = "returned"
    /\ last.op = "update"
    /\ last.dropped # {}
    /\ \E k \in DOMAIN mutexed.cached_most_recently_at_block :
          /\ mutexed.cached_most_recently_at_block[k] = last.number
          /\ get(mutexed, k, NoBlock).result.some
          /\ get(mutexed, k, NoBlock).result.values # <<>>

(***************************************************************************)
(* The alerter's requests.                                                 *)
(***************************************************************************)
\* C37: in an iteration in which the last observed trade is at most
\* time_without_trade ago, update returns without a request to the oracle:
\* the oracle has answered for no order.
C37_NoOracleQueryAfterRecentTrade ==
    alerter.tick.recent => alerter.tick.answers = <<>>

\* C38: an iteration in which an order that left the open orders is
\* fulfilled sets last_observed_trade to the time of the iteration, also
\* when the status request for another order that left in the same
\* iteration fails.
C38_NoFulfilledOrderLost ==
    [][\A i \in DOMAIN alerter'.tick.closed :
          alerter'.tick.closed[i].status = "Fulfilled"
              => alerter'.last_observed_trade > alerter.now]_vars

(***************************************************************************)
(* The total surplus of a settlement.                                      *)
(***************************************************************************)
\* C39: total_surplus fails for no decoded settlement, a token index of
\* 2^64 or more included: it returns a sum to which every trade has added
\* its surplus or 0, in the order of the trades.
C39_TotalSurplusNeverFails ==
    (trading.op = "total_surplus" /\ trading.pc = "returned") =>
        /\ ~trading.out.panicked
        /\ Len(trading.out.surpluses) = Len(trading.settlement.trades)
====
